---- MODULE Spec2Model ----
(***************************************************************************)
(* PySecScanner: the suppression resolver (pysec/ignore_handler.py), the   *)
(* severity adjuster (pysec/severity_adjuster.py) and the engine that      *)
(* composes them (pysec/engine.py, pysec/models.py).                       *)
(*                                                                         *)
(* Spec      IgnoreHandler.parse_source, one loop iteration per step; the  *)
(*           source text is the sequence of lines the loop has enumerated. *)
(* SpecScan  SecurityScanner.scan_code, one call per step.                 *)
(***************************************************************************)
EXTENDS Integers, Sequences, FiniteSets, TLC

VARIABLES lines, line_number, active_disables, context, pc,
          config, source_code, filename, raw, result,
          ast_tree, outcomes, files,
          adjuster, call, ret,
          RULE_REGISTRY, rules,
          hash_seed, previous,
          cache, scanner, tasks,
          clock, ast_scanner, generator

vars == <<lines, line_number, active_disables, context, pc,
          config, source_code, filename, raw, result,
          ast_tree, outcomes, files,
          adjuster, call, ret,
          RULE_REGISTRY, rules,
          hash_seed, previous,
          cache, scanner, tasks,
          clock, ast_scanner, generator>>

parseVars == <<lines, line_number, active_disables, context, pc>>

scanVars == <<config, source_code, filename, raw, result, ast_tree, outcomes, files>>

unitVars == <<adjuster, call, ret>>

registryVars == <<RULE_REGISTRY, rules>>

processVars == <<hash_seed, previous>>

advancedVars == <<cache, scanner, tasks>>

timeoutVars == <<clock, ast_scanner, generator>>

runtimeVars == <<processVars, advancedVars, timeoutVars>>

(***************************************************************************)
(* Bounds and input alphabets                                              *)
(***************************************************************************)
MaxLines == 4

RuleIds == {"A", "B"}

\* match.group(1): absent when the optional bracket did not take part in
\* the match, else the bracket's text, held as its comma-separated pieces.
NoGroup == [present |-> FALSE, items |-> <<>>]

Group(items) == [present |-> TRUE, items |-> items]

CodeLine == [kind |-> "code", group |-> NoGroup]

Directive(kind, group) == [kind |-> kind, group |-> group]

InlineLines ==
  { Directive("ignore", g) : g \in {NoGroup, Group(<<"a">>), Group(<<" ", "">>)} }

FileLines ==
  { Directive("ignore-file", g) : g \in {NoGroup, Group(<<"B">>), Group(<<" ">>)} }

DisableLines ==
  { Directive("disable", g) :
      g \in {NoGroup, Group(<<"A">>), Group(<<" b">>), Group(<<"A", " B">>)} }

EnableLines ==
  { Directive("enable", g) : g \in {NoGroup, Group(<<"A">>), Group(<<"B", "">>)} }

(***************************************************************************)
(* Optional values                                                         *)
(***************************************************************************)
None == [none |-> TRUE, ids |-> <<>>]

Some(l) == [none |-> FALSE, ids |-> l]

NoneSet == [none |-> TRUE, ids |-> {}]

SomeSet(s) == [none |-> FALSE, ids |-> s]

NoneKey == "<None>"

Range(s) == { s[i] : i \in DOMAIN s }

(***************************************************************************)
(* str.strip and str.upper on the pieces the alphabets use                 *)
(***************************************************************************)
strip(s) ==
  CASE s = " "  -> ""
    [] s = " b" -> "b"
    [] s = " B" -> "B"
    [] OTHER    -> s

upper(s) ==
  CASE s = "a"    -> "A"
    [] s = "b"    -> "B"
    [] s = "md5"  -> "MD5"
    [] s = "sha1" -> "SHA1"
    [] OTHER      -> s

NonEmpty(s) == s # ""

\* IgnoreHandler._parse_rule_ids
parse_rule_ids(rule_str) ==
  IF ~rule_str.present THEN None
  ELSE LET cleaned == [i \in DOMAIN rule_str.items |-> upper(strip(rule_str.items[i]))]
           rule_ids == SelectSeq(cleaned, NonEmpty)
       IN  IF rule_ids # <<>> THEN Some(rule_ids) ELSE None

(***************************************************************************)
(* dict, in insertion order: a sequence of [key, start] entries            *)
(***************************************************************************)
DictHas(d, k) == \E i \in DOMAIN d : d[i].key = k

DictGet(d, k) == d[CHOOSE i \in DOMAIN d : d[i].key = k].start

DictSet(d, k, v) ==
  IF DictHas(d, k)
    THEN [i \in DOMAIN d |-> IF d[i].key = k THEN [key |-> k, start |-> v] ELSE d[i]]
    ELSE Append(d, [key |-> k, start |-> v])

DictPop(d, k) ==
  LET Keep(i) == d[i].key # k
      F[n \in 0..Len(d)] ==
        IF n = 0 THEN <<>>
        ELSE IF Keep(n) THEN Append(F[n - 1], d[n]) ELSE F[n - 1]
  IN  F[Len(d)]

(***************************************************************************)
(* IgnoreContext and the parser state (context, active_disables)           *)
(***************************************************************************)
NoLineIgnores == [n \in {} |-> None]

EmptyContext ==
  [file_level_ignore     |-> NoneSet,
   file_level_ignore_all |-> FALSE,
   line_ignores          |-> NoLineIgnores,
   block_ignores         |-> <<>>]

ParserStart == [context |-> EmptyContext, active_disables |-> <<>>]

BlockScope(key) == IF key = NoneKey THEN None ELSE Some(<<key>>)

Block(start, end, rule_ids) == [start |-> start, end |-> end, rule_ids |-> rule_ids]

\* variant: a closed range takes the place of the range closed before it
AppendBlock_overwrite(ctx, b) ==
  [ctx EXCEPT !.block_ignores =
     IF @ = <<>> THEN <<b>> ELSE [@ EXCEPT ![Len(@)] = b]]

\* context.block_ignores.append(...)
AppendBlock(ctx, b) == [ctx EXCEPT !.block_ignores = Append(@, b)]

\* variant: an ignore-file that drops its rule list
FileIgnoreAllRules(st, rule_ids) ==
  [st EXCEPT !.context.file_level_ignore_all = TRUE]

\* parse_source, the ignore-file branch
FileIgnore(st, rule_ids) ==
  IF rule_ids.none
    THEN [st EXCEPT !.context.file_level_ignore_all = TRUE]
    ELSE LET cur == IF st.context.file_level_ignore.none
                      THEN {} ELSE st.context.file_level_ignore.ids
         IN  [st EXCEPT !.context.file_level_ignore =
                          SomeSet(cur \cup Range(rule_ids.ids))]

\* parse_source, the disable branch
BlockDisable(st, n, rule_ids) ==
  IF rule_ids.none
    THEN [st EXCEPT !.active_disables = DictSet(@, NoneKey, n)]
    ELSE LET F[i \in 0..Len(rule_ids.ids)] ==
               IF i = 0 THEN st.active_disables
               ELSE DictSet(F[i - 1], rule_ids.ids[i], n)
         IN  [st EXCEPT !.active_disables = F[Len(rule_ids.ids)]]

\* closes the open block of one key, if there is one
CloseKey(st, n, key) ==
  IF DictHas(st.active_disables, key)
    THEN [context |-> AppendBlock(st.context,
                        Block(DictGet(st.active_disables, key) + 1, n - 1, BlockScope(key))),
          active_disables |-> DictPop(st.active_disables, key)]
    ELSE st

\* variant: an unscoped enable that closes the unscoped block only
EnableAllOnlyUnscoped(st, n) == CloseKey(st, n, NoneKey)

\* parse_source, the unscoped enable branch: every open block is closed
EnableAll(st, n) ==
  LET d == st.active_disables
      F[i \in 0..Len(d)] ==
        IF i = 0 THEN st.context
        ELSE AppendBlock(F[i - 1], Block(d[i].start + 1, n - 1, BlockScope(d[i].key)))
  IN  [context |-> F[Len(d)], active_disables |-> <<>>]

\* variant: a rule-scoped enable that leaves the unscoped block open
EnableRulesKeepUnscoped(st, n, ids) ==
  LET F[i \in 0..Len(ids)] ==
        IF i = 0 THEN st ELSE CloseKey(F[i - 1], n, ids[i])
  IN  F[Len(ids)]

\* parse_source, the rule-scoped enable branch
EnableRules(st, n, ids) ==
  LET F[i \in 0..Len(ids)] ==
        IF i = 0 THEN st ELSE CloseKey(F[i - 1], n, ids[i])
  IN  CloseKey(F[Len(ids)], n, NoneKey)

BlockEnable(st, n, rule_ids) ==
  IF rule_ids.none THEN EnableAll(st, n) ELSE EnableRules(st, n, rule_ids.ids)

\* variant: an inline ignore that drops its rule list
InlineIgnoreAllRules(st, n, rule_ids) ==
  [st EXCEPT !.context.line_ignores = (n :> None) @@ @]

\* parse_source, the inline ignore branch
InlineIgnore(st, n, rule_ids) ==
  [st EXCEPT !.context.line_ignores = (n :> rule_ids) @@ @]

\* one iteration of the loop over enumerate(lines, start=1)
ParseLine(st, n, line) ==
  CASE line.kind = "ignore-file" -> FileIgnore(st, parse_rule_ids(line.group))
    [] line.kind = "disable"     -> BlockDisable(st, n, parse_rule_ids(line.group))
    [] line.kind = "enable"      -> BlockEnable(st, n, parse_rule_ids(line.group))
    [] line.kind = "ignore"      -> InlineIgnore(st, n, parse_rule_ids(line.group))
    [] OTHER                     -> st

\* after the loop: the blocks still open run to the last line
CloseUnclosed(st, total_lines) ==
  LET d == st.active_disables
      F[i \in 0..Len(d)] ==
        IF i = 0 THEN st.context
        ELSE AppendBlock(F[i - 1], Block(d[i].start + 1, total_lines, BlockScope(d[i].key)))
  IN  F[Len(d)]

\* IgnoreHandler.parse_source as a function of the whole text
ParseSource(src) ==
  LET F[i \in 0..Len(src)] ==
        IF i = 0 THEN ParserStart ELSE ParseLine(F[i - 1], i, src[i])
  IN  CloseUnclosed(F[Len(src)], Len(src))

\* variant: block ranges taken as exclusive of their first line
should_ignore_exclusive(ctx, line, rule_id) ==
  \/ ctx.file_level_ignore_all
  \/ rule_id \in ctx.file_level_ignore.ids
  \/ /\ line \in DOMAIN ctx.line_ignores
     /\ (ctx.line_ignores[line].none \/ rule_id \in Range(ctx.line_ignores[line].ids))
  \/ \E i \in DOMAIN ctx.block_ignores :
       /\ ctx.block_ignores[i].start < line
       /\ line <= ctx.block_ignores[i].end
       /\ ( ctx.block_ignores[i].rule_ids.none
            \/ rule_id \in Range(ctx.block_ignores[i].rule_ids.ids) )

\* IgnoreContext.should_ignore
should_ignore(ctx, line, rule_id) ==
  IF ctx.file_level_ignore_all THEN TRUE
  ELSE IF ctx.file_level_ignore.ids # {} /\ rule_id \in ctx.file_level_ignore.ids THEN TRUE
  ELSE IF line \in DOMAIN ctx.line_ignores
          /\ (ctx.line_ignores[line].none \/ rule_id \in Range(ctx.line_ignores[line].ids))
         THEN TRUE
  ELSE LET b == ctx.block_ignores
           Loop[i \in 1..(Len(b) + 1)] ==
             IF i > Len(b) THEN FALSE
             ELSE IF b[i].start <= line /\ line <= b[i].end
                     /\ (b[i].rule_ids.none \/ rule_id \in Range(b[i].rule_ids.ids))
                    THEN TRUE
                    ELSE Loop[i + 1]
       IN  Loop[1]

(***************************************************************************)
(* ignore.py: IgnoreCommentParser                                          *)
(***************************************************************************)
\* IGNORE_PATTERN.search: `ignore` with its optional bracket, not anchored
\* at the end of the line, so an ignore-file line matches as a bare ignore
IGNORE_PATTERN(line) ==
  CASE line.kind = "ignore"      -> [match |-> TRUE, group |-> line.group]
    [] line.kind = "ignore-file" -> [match |-> TRUE, group |-> NoGroup]
    [] OTHER                     -> [match |-> FALSE, group |-> NoGroup]

\* DISABLE_PATTERN.search: the bracket, if any, is not part of the pattern
DISABLE_PATTERN(line) == line.kind = "disable"

\* ENABLE_PATTERN.search
ENABLE_PATTERN(line) == line.kind = "enable"

\* {r.strip() for r in rules_str.split(',') if r.strip()}
comment_rule_ids(group) ==
  { strip(group.items[i]) : i \in DOMAIN group.items } \ {""}

\* _parse_ignore_comments, the line-level part: line number -> rule ids
comment_line_ignores(src) ==
  [n \in { m \in DOMAIN src : IGNORE_PATTERN(src[m]).match } |->
     IF IGNORE_PATTERN(src[n]).group.present
       THEN SomeSet(comment_rule_ids(IGNORE_PATTERN(src[n]).group))
       ELSE NoneSet]

\* disable_start = None
NoStart == 0

\* _parse_ignore_comments, the block part: disabled_ranges as (start, end)
\* pairs; a disable while a block is open leaves disable_start alone
disabled_ranges(src) ==
  LET F[i \in 0..Len(src)] ==
        IF i = 0 THEN [ranges |-> <<>>, disable_start |-> NoStart]
        ELSE LET st == F[i - 1]
             IN  IF DISABLE_PATTERN(src[i])
                   THEN IF st.disable_start = NoStart
                          THEN [st EXCEPT !.disable_start = i]
                          ELSE st
                 ELSE IF ENABLE_PATTERN(src[i])
                   THEN IF st.disable_start # NoStart
                          THEN [ranges |-> Append(st.ranges, <<st.disable_start, i>>),
                                disable_start |-> NoStart]
                          ELSE st
                 ELSE st
      end == F[Len(src)]
  IN  IF end.disable_start # NoStart
        THEN Append(end.ranges, <<end.disable_start, Len(src)>>)
        ELSE end.ranges

\* IgnoreCommentParser(source_code).should_ignore
IgnoreCommentParser_should_ignore(src, line_no, rule_id) ==
  \/ \E i \in DOMAIN disabled_ranges(src) :
       disabled_ranges(src)[i][1] <= line_no /\ line_no <= disabled_ranges(src)[i][2]
  \/ /\ line_no \in DOMAIN comment_line_ignores(src)
     /\ \/ comment_line_ignores(src)[line_no].none
        \/ rule_id \in comment_line_ignores(src)[line_no].ids

(***************************************************************************)
(* models.py: severity levels and ScanResult                               *)
(***************************************************************************)
SEVERITY_LEVELS == <<"critical", "high", "medium", "low">>

\* min_severity unset: None and "" are both false in `if min_severity`
NoSeverity == ""

lower(s) ==
  CASE s = "Info" -> "info"
    [] s = "HIGH" -> "high"
    [] OTHER      -> s

IndexOf(seq, x) == CHOOSE i \in DOMAIN seq : seq[i] = x

get_severity_value(severity) ==
  IF lower(severity) \in Range(SEVERITY_LEVELS)
    THEN IndexOf(SEVERITY_LEVELS, lower(severity)) - 1
    ELSE Len(SEVERITY_LEVELS)

NewScanResult(target) ==
  [target          |-> target,
   files_scanned   |-> 0,
   vulnerabilities |-> <<>>,
   errors          |-> <<>>,
   ignored_count   |-> 0,
   filtered_count  |-> 0]

\* variant: a finding exactly at the minimum level is removed as well
filter_by_severity_above(res, min_severity) ==
  IF min_severity = NoSeverity THEN res
  ELSE LET min_level == get_severity_value(min_severity)
           Keep(v)   == get_severity_value(v.severity) < min_level
           kept      == SelectSeq(res.vulnerabilities, Keep)
           filtered  == Len(res.vulnerabilities) - Len(kept)
       IN  [res EXCEPT !.vulnerabilities = kept,
                       !.filtered_count  = @ + filtered]

\* ScanResult.filter_by_severity: the object after the call
filter_by_severity(res, min_severity) ==
  IF min_severity = NoSeverity THEN res
  ELSE LET min_level == get_severity_value(min_severity)
           Keep(v)   == get_severity_value(v.severity) <= min_level
           kept      == SelectSeq(res.vulnerabilities, Keep)
           filtered  == Len(res.vulnerabilities) - Len(kept)
       IN  [res EXCEPT !.vulnerabilities = kept,
                       !.filtered_count  = @ + filtered]

\* ScanResult.filter_by_severity: the value returned, which is the amount
\* filtered_count grew by
filter_by_severity_return(res, min_severity) ==
  filter_by_severity(res, min_severity).filtered_count - res.filtered_count

\* severity_overrides unset: None and {} are both false in `if ...`
NoOverrides == [r \in {} |-> ""]

\* ScanConfig()
DefaultConfig ==
  [min_severity |-> NoSeverity, dynamic_severity |-> FALSE,
   severity_overrides |-> NoOverrides,
   enabled_rules |-> None, disabled_rules |-> None]

\* ScanConfig.get_effective_severity
get_effective_severity(cfg, rule_id, default_severity) ==
  IF /\ cfg.severity_overrides # NoOverrides
     /\ rule_id \in DOMAIN cfg.severity_overrides
     /\ lower(cfg.severity_overrides[rule_id]) \in Range(SEVERITY_LEVELS)
    THEN lower(cfg.severity_overrides[rule_id])
    ELSE default_severity

(***************************************************************************)
(* severity_adjuster.py                                                    *)
(***************************************************************************)
SEVERITY_ORDER == <<"critical", "high", "medium", "low">>

\* file paths of a scan, and which of them the path patterns match
Filenames == {"src/api/handler.py", "tests/test_cmd.py", "util.py"}

MatchesLowSensitivityPath(path) == path \in {"tests/test_cmd.py"}

MatchesSensitivePath(path) == path \in {"src/api/handler.py"}

\* re.search finds the keyword anywhere in the name
MatchesSensitiveFunction(name) == name \in {"login", "AuthService", "test_login"}

MatchesUserInput(code) == code \in {"os.system(user_input)"}

NoName == ""

DefaultAdjuster ==
  [enabled               |-> TRUE,
   upgrade_for_sensitive |-> TRUE,
   downgrade_for_tests   |-> TRUE,
   consider_user_input   |-> TRUE]

\* func_name.startswith("test") or func_name.startswith("_test")
StartsWithTest(name) == name \in {"test_login", "_test_helper"}

is_test_code(ctx) ==
  \/ MatchesLowSensitivityPath(ctx.file_path)
  \/ (ctx.function_name # NoName /\ StartsWithTest(ctx.function_name))

is_sensitive_path(ctx) == MatchesSensitivePath(ctx.file_path)

is_sensitive_function(ctx) ==
  \/ (ctx.function_name # NoName /\ MatchesSensitiveFunction(ctx.function_name))
  \/ (ctx.class_name # NoName /\ MatchesSensitiveFunction(ctx.class_name))

involves_user_input(ctx) == MatchesUserInput(ctx.code_snippet)

Max(a, b) == IF a >= b THEN a ELSE b

Min(a, b) == IF a <= b THEN a ELSE b

\* SeverityAdjuster._apply_adjustment
apply_adjustment(severity, adjustment) ==
  IF adjustment = 0 THEN severity
  ELSE IF severity \notin Range(SEVERITY_ORDER) THEN severity
  ELSE LET current_index == IndexOf(SEVERITY_ORDER, severity) - 1
           new_index     == Max(0, Min(Len(SEVERITY_ORDER) - 1, current_index - adjustment))
       IN  SEVERITY_ORDER[new_index + 1]

\* variant: the function name and the class name each count on their own
adjust_severity_counting_both(adj, base_severity, ctx) ==
  IF ~adj.enabled THEN base_severity
  ELSE LET a1 == IF adj.downgrade_for_tests /\ is_test_code(ctx) THEN -1 ELSE 0
           a2 == IF adj.upgrade_for_sensitive /\ is_sensitive_path(ctx) THEN 1 ELSE 0
           a3 == IF adj.upgrade_for_sensitive /\ ctx.function_name # NoName
                    /\ MatchesSensitiveFunction(ctx.function_name) THEN 1 ELSE 0
           a5 == IF adj.upgrade_for_sensitive /\ ctx.class_name # NoName
                    /\ MatchesSensitiveFunction(ctx.class_name) THEN 1 ELSE 0
           a4 == IF adj.consider_user_input /\ involves_user_input(ctx) THEN 1 ELSE 0
       IN  apply_adjustment(lower(base_severity), a1 + a2 + a3 + a5 + a4)

\* SeverityAdjuster.adjust_severity
adjust_severity(adj, base_severity, ctx) ==
  IF ~adj.enabled THEN base_severity
  ELSE LET a1 == IF adj.downgrade_for_tests /\ is_test_code(ctx) THEN -1 ELSE 0
           a2 == IF adj.upgrade_for_sensitive /\ is_sensitive_path(ctx) THEN 1 ELSE 0
           a3 == IF adj.upgrade_for_sensitive /\ is_sensitive_function(ctx) THEN 1 ELSE 0
           a4 == IF adj.consider_user_input /\ involves_user_input(ctx) THEN 1 ELSE 0
       IN  apply_adjustment(lower(base_severity), a1 + a2 + a3 + a4)

\* the reason texts of get_adjustment_reasons
ReasonTestCode == "test code (downgrade)"

ReasonSensitivePath == "sensitive path (upgrade)"

ReasonSensitiveFunction == "sensitive function (upgrade)"

ReasonUserInput == "user input (upgrade)"

\* SeverityAdjuster.get_adjustment_reasons
get_adjustment_reasons(adj, ctx) ==
  LET r1 == IF is_test_code(ctx) THEN <<ReasonTestCode>> ELSE <<>>
      r2 == IF is_sensitive_path(ctx) THEN <<ReasonSensitivePath>> ELSE <<>>
      r3 == IF is_sensitive_function(ctx) THEN <<ReasonSensitiveFunction>> ELSE <<>>
      r4 == IF involves_user_input(ctx) THEN <<ReasonUserInput>> ELSE <<>>
  IN  r1 \o r2 \o r3 \o r4

\* create_context_from_vulnerability: a Vulnerability has no function_name
\* and no class_name attribute, so getattr yields None for both
create_context_from_vulnerability(vuln) ==
  [file_path     |-> vuln.file_path,
   function_name |-> NoName,
   class_name    |-> NoName,
   code_snippet  |-> vuln.code_snippet,
   line_number   |-> vuln.line_number]

(***************************************************************************)
(* engine.py: rules, RuleEngine and SecurityScanner.scan_code              *)
(***************************************************************************)
MaxScanLines == 2

\* RULE_REGISTRY in registration order, and each rule's class attributes
Rules == <<"A", "B">>

RuleSeverity(rule_id) == IF rule_id = "A" THEN "medium" ELSE "high"

RuleSnippet(rule_id) ==
  IF rule_id = "A" THEN "os.system(user_input)" ELSE "password = 'secret123'"

\* variant: the line is counted from 0, as AST columns are
create_vulnerability_zero_based(rule_id, file_path, line) ==
  [rule_id      |-> rule_id,
   severity     |-> RuleSeverity(rule_id),
   file_path    |-> file_path,
   line_number  |-> line - 1,
   code_snippet |-> RuleSnippet(rule_id)]

\* BaseRule._create_vulnerability
create_vulnerability(rule_id, file_path, line) ==
  [rule_id      |-> rule_id,
   severity     |-> RuleSeverity(rule_id),
   file_path    |-> file_path,
   line_number  |-> line,
   code_snippet |-> RuleSnippet(rule_id)]

\* the outcome of one rule.check call: it raises, or it returns the
\* findings on some lines of the text, top to bottom
CheckOutcomes(rule_id, file_path, total_lines) ==
  { [raised |-> TRUE, results |-> <<>>] }
    \cup
  { [raised  |-> FALSE,
     results |-> LET F[n \in 0..total_lines] ==
                       IF n = 0 THEN <<>>
                       ELSE IF n \in hit
                              THEN Append(F[n - 1], create_vulnerability(rule_id, file_path, n))
                              ELSE F[n - 1]
                 IN  F[total_lines]] : hit \in SUBSET (1..total_lines) }

\* variant: a suppressed finding is counted and still kept
filter_vulnerabilities_keep_ignored(vulnerabilities, src, file_path) ==
  IF vulnerabilities = <<>> THEN [filtered |-> vulnerabilities, ignored_count |-> 0]
  ELSE LET ctx == ParseSource(src)
           F[i \in 0..Len(vulnerabilities)] ==
             IF i = 0 THEN [filtered |-> <<>>, ignored_count |-> 0]
             ELSE IF should_ignore(ctx, vulnerabilities[i].line_number,
                                   vulnerabilities[i].rule_id)
                    THEN [F[i - 1] EXCEPT !.ignored_count = @ + 1,
                                          !.filtered = Append(@, vulnerabilities[i])]
                    ELSE [F[i - 1] EXCEPT !.filtered = Append(@, vulnerabilities[i])]
       IN  F[Len(vulnerabilities)]

\* IgnoreHandler.filter_vulnerabilities
filter_vulnerabilities(vulnerabilities, src, file_path) ==
  IF vulnerabilities = <<>> THEN [filtered |-> vulnerabilities, ignored_count |-> 0]
  ELSE LET ctx == ParseSource(src)
           F[i \in 0..Len(vulnerabilities)] ==
             IF i = 0 THEN [filtered |-> <<>>, ignored_count |-> 0]
             ELSE IF should_ignore(ctx, vulnerabilities[i].line_number,
                                   vulnerabilities[i].rule_id)
                    THEN [F[i - 1] EXCEPT !.ignored_count = @ + 1]
                    ELSE [F[i - 1] EXCEPT !.filtered = Append(@, vulnerabilities[i])]
       IN  F[Len(vulnerabilities)]

\* variant: the first rule that raises ends the loop over the rules
collect_until_raise(outcome) ==
  LET F[i \in 0..Len(Rules)] ==
        IF i = 0 THEN [results |-> <<>>, aborted |-> FALSE]
        ELSE IF F[i - 1].aborted THEN F[i - 1]
        ELSE IF outcome[Rules[i]].raised THEN [F[i - 1] EXCEPT !.aborted = TRUE]
        ELSE [F[i - 1] EXCEPT !.results = @ \o outcome[Rules[i]].results]
  IN  F[Len(Rules)].results

\* RuleEngine.scan_ast, the loop over self.rules: what the rules that did
\* not raise returned, in rule order
collect(outcome) ==
  LET F[i \in 0..Len(Rules)] ==
        IF i = 0 THEN <<>>
        ELSE IF outcome[Rules[i]].raised THEN F[i - 1]
             ELSE F[i - 1] \o outcome[Rules[i]].results
  IN  F[Len(Rules)]

\* RuleEngine.scan_ast
scan_ast(outcome, file_path, src) ==
  filter_vulnerabilities(collect(outcome), src, file_path)

\* SecurityScanner.scan_code on a text that ast.parse accepts
scan_code(cfg, src, file_path, outcome) ==
  LET found == scan_ast(outcome, file_path, src)
      res   == [NewScanResult(file_path) EXCEPT
                  !.vulnerabilities = found.filtered,
                  !.files_scanned   = 1,
                  !.ignored_count   = found.ignored_count]
  IN  IF cfg.min_severity # NoSeverity
        THEN filter_by_severity(res, cfg.min_severity)
        ELSE res

\* SecurityScanner.scan_code on a text that ast.parse rejects:
\* scan_source returns ([], 0)
scan_code_syntax_error(cfg, src, file_path) ==
  LET res == [NewScanResult(file_path) EXCEPT !.files_scanned = 1]
  IN  IF cfg.min_severity # NoSeverity
        THEN filter_by_severity(res, cfg.min_severity)
        ELSE res

(***************************************************************************)
(* rules/base.py: RULE_REGISTRY, a dict in insertion order, and the rules  *)
(* a RuleEngine loads from it                                              *)
(***************************************************************************)
RuleClass(name, rule_id) == [name |-> name, rule_id |-> rule_id]

\* the two classes the package registers on import, and classes a later
\* import or a rule file loaded at run time brings: one reusing id A, one
\* with a new id, one with the empty rule_id of BaseRule
RuleA == RuleClass("RuleA", "A")

RuleB == RuleClass("RuleB", "B")

RuleClasses ==
  { RuleA, RuleB, RuleClass("OtherA", "A"), RuleClass("RuleC", "C"),
    RuleClass("Unnamed", "") }

RegistryKeys(reg) == { reg[i].rule_id : i \in DOMAIN reg }

\* RULE_REGISTRY[rule_class.rule_id] = rule_class
RegistrySet(reg, rule_class) ==
  IF rule_class.rule_id \in RegistryKeys(reg)
    THEN [i \in DOMAIN reg |->
            IF reg[i].rule_id = rule_class.rule_id
              THEN [rule_id |-> rule_class.rule_id, rule_class |-> rule_class]
              ELSE reg[i]]
    ELSE Append(reg, [rule_id |-> rule_class.rule_id, rule_class |-> rule_class])

\* register_rule
register_rule(reg, rule_class) ==
  IF rule_class.rule_id # "" THEN RegistrySet(reg, rule_class) ELSE reg

\* the registry once `import pysec.rules` has run
ImportedRegistry == register_rule(register_rule(<<>>, RuleA), RuleB)

\* variant: the enabled list is consulted first and decides when it is set
should_scan_rule_enabled_first(cfg, rule_id) ==
  IF cfg.enabled_rules.ids # <<>>
    THEN rule_id \in Range(cfg.enabled_rules.ids)
    ELSE rule_id \notin Range(cfg.disabled_rules.ids)

\* ScanConfig.should_scan_rule
should_scan_rule(cfg, rule_id) ==
  IF cfg.disabled_rules.ids # <<>> /\ rule_id \in Range(cfg.disabled_rules.ids) THEN FALSE
  ELSE IF cfg.enabled_rules.ids # <<>> /\ rule_id \notin Range(cfg.enabled_rules.ids) THEN FALSE
  ELSE TRUE

\* RuleEngine._load_rules: an instance of every registered class the
\* configuration lets through, in registry order
load_rules(cfg, reg) ==
  LET F[i \in 0..Len(reg)] ==
        IF i = 0 THEN <<>>
        ELSE IF should_scan_rule(cfg, reg[i].rule_id)
               THEN Append(F[i - 1], reg[i].rule_class)
               ELSE F[i - 1]
  IN  F[Len(reg)]

\* what the checks of the loaded rules can do on a text, one outcome per
\* loaded rule
LoadedOutcomes(loaded, file_path, total_lines) ==
  LET F[i \in 0..Len(loaded)] ==
        IF i = 0 THEN {<<>>}
        ELSE { Append(o, c) : o \in F[i - 1],
                              c \in CheckOutcomes(loaded[i].rule_id, file_path, total_lines) }
  IN  F[Len(loaded)]

\* RuleEngine.scan_ast with the rules this engine loaded
scan_ast_loaded(out, file_path, src) ==
  LET F[i \in 0..Len(out)] ==
        IF i = 0 THEN <<>>
        ELSE IF out[i].raised THEN F[i - 1]
             ELSE F[i - 1] \o out[i].results
  IN  filter_vulnerabilities(F[Len(out)], src, file_path)

\* the rules did not run
NoOutcome == [r \in RuleIds |-> [raised |-> FALSE, results |-> <<>>]]

NoError == ""

\* ASTParser.parse_file on a file whose text ast.parse rejects
SyntaxErrorText == "SyntaxError"

\* one tuple of Scanner.scan_target: (file_path, ast_tree, source_code, error)
\* and what the rules do on the tree, when there is one
Parsed(file_path, src, out) ==
  [file_path |-> file_path, ast_tree |-> TRUE, source_code |-> src,
   error |-> NoError, outcome |-> out]

Unparsed(file_path, src) ==
  [file_path |-> file_path, ast_tree |-> FALSE, source_code |-> src,
   error |-> SyntaxErrorText, outcome |-> NoOutcome]

\* f"{file_path}: {error}"
ErrorEntry(file_path, error) == <<file_path, ": ", error>>

\* SecurityScanner.scan, one iteration of the loop over scan_target
scan_iteration(acc, f) ==
  LET counted == [acc EXCEPT !.files_scanned = @ + 1]
  IN  IF f.error # NoError
        THEN [counted EXCEPT !.result.errors = Append(@, ErrorEntry(f.file_path, f.error))]
      ELSE IF ~f.ast_tree THEN counted
      ELSE LET found == scan_ast(f.outcome, f.file_path, f.source_code)
           IN  [counted EXCEPT !.total_ignored = @ + found.ignored_count,
                               !.result.vulnerabilities = @ \o found.filtered]

\* SecurityScanner.scan
scan(cfg, target, yielded) ==
  LET F[i \in 0..Len(yielded)] ==
        IF i = 0
          THEN [result |-> NewScanResult(target), files_scanned |-> 0, total_ignored |-> 0]
          ELSE scan_iteration(F[i - 1], yielded[i])
      done == F[Len(yielded)]
      res  == [done.result EXCEPT !.files_scanned = done.files_scanned,
                                  !.ignored_count = done.total_ignored]
  IN  IF cfg.min_severity # NoSeverity
        THEN filter_by_severity(res, cfg.min_severity)
        ELSE res

(***************************************************************************)
(* rules/insecure_hash.py: InsecureHashRule on texts of `from hashlib      *)
(* import X as h` lines and calls of h in a password context               *)
(***************************************************************************)
MaxHashLines == 3

ImportFromLine(module, name, asname) ==
  [kind |-> "code", group |-> NoGroup, stmt |-> "import-from",
   module |-> module, name |-> name, asname |-> asname]

\* password_hash = h(data)
CallLine(func) ==
  [kind |-> "code", group |-> NoGroup, stmt |-> "call", func |-> func]

HashLines ==
  { ImportFromLine("hashlib", "md5", "h"),
    ImportFromLine("hashlib", "sha1", "h"),
    CallLine("h") }

HashSources == UNION { [1..n -> HashLines] : n \in 1..MaxHashLines }

WEAK_HASH_ALGORITHMS == {"md5", "md4", "md2", "sha1", "sha"}

\* the (module, name, alias) tuples a from_imports set can hold
ImportTuples == { <<l.module, l.name, l.asname>> : l \in { h \in HashLines : h.stmt = "import-from" } }

\* the iteration order of a set of str tuples is fixed by the hash seed
\* the interpreter draws at start-up: a seed is held as the order it gives
HashSeeds ==
  { o \in [1..Cardinality(ImportTuples) -> ImportTuples] :
      \A i \in DOMAIN o : \A j \in DOMAIN o : i # j => o[i] # o[j] }

\* for ... in a_set
IterateSet(a_set, seed) ==
  LET F[i \in 0..Len(seed)] ==
        IF i = 0 THEN <<>>
        ELSE IF seed[i] \in a_set THEN Append(F[i - 1], seed[i]) ELSE F[i - 1]
  IN  F[Len(seed)]

\* InsecureHashRule._collect_imports: imports["from_imports"]
collect_imports(src) ==
  { <<src[n].module, src[n].name, src[n].asname>> :
      n \in { m \in DOMAIN src : src[m].stmt = "import-from" } }

NoCallInfo == <<>>

\* InsecureHashRule._get_call_info, the ast.Name branch: the first tuple of
\* the iteration whose alias is the called name and whose algorithm is weak
get_call_info(func_name, from_imports, seed) ==
  LET it == IterateSet(from_imports, seed)
      Loop[i \in 1..(Len(it) + 1)] ==
        IF i > Len(it) THEN NoCallInfo
        ELSE IF it[i][3] = func_name /\ it[i][1] = "hashlib"
                /\ lower(it[i][2]) \in WEAK_HASH_ALGORITHMS
               THEN <<"hashlib", it[i][2], it[i][2]>>
               ELSE Loop[i + 1]
  IN  Loop[1]

\* _create_vulnerability of HSH001: the description names the algorithm
hash_vulnerability(file_path, line, algo_name) ==
  [rule_id      |-> "HSH001",
   severity     |-> "medium",
   file_path    |-> file_path,
   line_number  |-> line,
   code_snippet |-> "password_hash = h(data)",
   description  |-> algo_name]

\* InsecureHashRule.check: one _check_hash_call per Call node, top to bottom
InsecureHashRule_check(src, file_path, seed) ==
  LET imports == collect_imports(src)
      F[n \in 0..Len(src)] ==
        IF n = 0 THEN <<>>
        ELSE IF src[n].stmt # "call" THEN F[n - 1]
        ELSE LET call_info == get_call_info(src[n].func, imports, seed)
             IN  IF call_info = NoCallInfo THEN F[n - 1]
                 ELSE IF lower(call_info[3]) \notin WEAK_HASH_ALGORITHMS THEN F[n - 1]
                 ELSE Append(F[n - 1],
                             hash_vulnerability(file_path, n, upper(call_info[3])))
  IN  F[Len(src)]

\* SecurityScanner.scan_code on such a text: of the loaded rules only
\* HSH001 reports on it
scan_code_hash(cfg, src, file_path, seed) ==
  LET out   == << [raised |-> FALSE, results |-> InsecureHashRule_check(src, file_path, seed)] >>
      found == scan_ast_loaded(out, file_path, src)
      res   == [NewScanResult(file_path) EXCEPT
                  !.vulnerabilities = found.filtered,
                  !.files_scanned   = 1,
                  !.ignored_count   = found.ignored_count]
  IN  IF cfg.min_severity # NoSeverity
        THEN filter_by_severity(res, cfg.min_severity)
        ELSE res

(***************************************************************************)
(* rules/command_injection.py and rules/path_traversal.py on trees of Call *)
(* statements                                                              *)
(***************************************************************************)
MaxCalls == 1

\* argument nodes by their ast class; a BinOp has its two operands
Arg(class) == [class |-> class]

BinOp(left, right) == [class |-> "BinOp", left |-> left, right |-> right]

\* an f-string and whether one of its values is a FormattedValue
JoinedStr(formatted) == [class |-> "JoinedStr", formatted |-> formatted]

ArgLists ==
  { <<>>,
    <<Arg("Constant")>>,
    <<Arg("Name")>>,
    <<Arg("Attribute")>>,
    <<Arg("List")>>,
    <<BinOp(Arg("Constant"), Arg("Constant"))>>,
    <<BinOp(Arg("Constant"), Arg("Name"))>>,
    <<JoinedStr(FALSE)>>,
    <<JoinedStr(TRUE)>>,
    <<Arg("Constant"), Arg("Constant")>>,
    <<Arg("Constant"), Arg("Name")>> }

\* the shell keyword of a call: absent, a True or False constant, a name
ShellKeywords == {"absent", "True", "False", "Name"}

CallNode(func, args, shell) == [func |-> func, args |-> args, shell |-> shell]

CalledNames ==
  {"os.system", "os.spawnl", "subprocess.run", "open", "os.remove", "os.path.join", "print"}

CallNodes ==
  { CallNode(f, a, k) : f \in CalledNames, a \in ArgLists, k \in ShellKeywords }

CallTrees == UNION { [1..n -> CallNodes] : n \in 1..MaxCalls }

\* a finding of a rule that names its own severity
new_vulnerability(rule_id, severity, file_path, line, description) ==
  [rule_id      |-> rule_id,
   severity     |-> severity,
   file_path    |-> file_path,
   line_number  |-> line,
   code_snippet |-> "",
   description  |-> description]

\* CommandInjectionRule.DANGEROUS_FUNCTIONS: the severity of each name
DANGEROUS_FUNCTIONS ==
  [f \in {"os.system", "os.popen", "os.exec", "os.execl", "os.execle", "os.execlp",
          "os.execv", "os.execve", "commands.getoutput", "commands.getstatusoutput"}
     |-> "critical"]
  @@
  [f \in {"os.spawn", "os.spawnl", "os.spawnle", "os.spawnlp", "os.spawnv", "os.spawnve"}
     |-> "high"]

SUBPROCESS_FUNCTIONS ==
  {"subprocess.call", "subprocess.run", "subprocess.Popen", "subprocess.check_call",
   "subprocess.check_output", "subprocess.getoutput", "subprocess.getstatusoutput"}

\* _get_func_name: the dotted name of the called function
get_func_name(node) == node.func

\* CommandInjectionRule._has_shell_true
has_shell_true(node) == node.shell = "True"

\* CommandInjectionRule.check
CommandInjectionRule_check(tree, file_path) ==
  LET F[n \in 0..Len(tree)] ==
        IF n = 0 THEN <<>>
        ELSE LET func_name == get_func_name(tree[n])
             IN  IF func_name \in DOMAIN DANGEROUS_FUNCTIONS
                   THEN Append(F[n - 1],
                               new_vulnerability("CMD001", DANGEROUS_FUNCTIONS[func_name],
                                                 file_path, n, "dangerous function"))
                 ELSE IF func_name \in SUBPROCESS_FUNCTIONS /\ has_shell_true(tree[n])
                   THEN Append(F[n - 1],
                               new_vulnerability("CMD001", "critical",
                                                 file_path, n, "shell=True"))
                 ELSE F[n - 1]
  IN  F[Len(tree)]

FILE_FUNCTIONS == {"open", "file"}

FILE_METHODS ==
  {"os.remove", "os.unlink", "os.rmdir", "os.mkdir", "os.makedirs", "os.rename",
   "os.renames", "os.replace", "os.chmod", "os.chown", "os.link", "os.symlink",
   "os.readlink", "os.listdir", "os.scandir", "os.walk", "os.path.exists",
   "os.path.isfile", "os.path.isdir", "os.path.getsize", "shutil.copy", "shutil.copy2",
   "shutil.copytree", "shutil.move", "shutil.rmtree", "pathlib.Path", "io.open"}

\* PathTraversalRule._is_user_controlled
RECURSIVE is_user_controlled(_)
is_user_controlled(node) ==
  CASE node.class = "Constant"  -> FALSE
    [] node.class \in {"Name", "Subscript", "Attribute", "Call"} -> TRUE
    [] node.class = "BinOp"     ->
         is_user_controlled(node.left) \/ is_user_controlled(node.right)
    [] node.class = "JoinedStr" -> node.formatted
    [] OTHER                    -> FALSE

\* the os.path.join part of PathTraversalRule.check: at most one finding,
\* for the first user-controlled argument after the base path
join_findings(node, file_path, n) ==
  IF /\ get_func_name(node) = "os.path.join"
     /\ \E i \in 2..Len(node.args) : is_user_controlled(node.args[i])
    THEN << new_vulnerability("PTH001", "medium", file_path, n, "os.path.join") >>
    ELSE <<>>

\* PathTraversalRule.check
PathTraversalRule_check(tree, file_path) ==
  LET F[n \in 0..Len(tree)] ==
        IF n = 0 THEN <<>>
        ELSE LET func_name == get_func_name(tree[n])
                 first ==
                   IF /\ (func_name \in FILE_FUNCTIONS \/ func_name \in FILE_METHODS)
                      /\ tree[n].args # <<>>
                      /\ is_user_controlled(tree[n].args[1])
                     THEN << new_vulnerability("PTH001", "medium", file_path, n, "path") >>
                     ELSE <<>>
             IN  F[n - 1] \o first \o join_findings(tree[n], file_path, n)
  IN  F[Len(tree)]

(***************************************************************************)
(* rules/hardcoded_secrets.py: HardcodedSecretsRule. A str is held as the  *)
(* sequence of its characters.                                             *)
(***************************************************************************)
MaxStatements == 2

UpperCase == <<"A","B","C","D","E","F","G","H","I","J","K","L","M","N","O","P","Q","R","S","T","U","V","W","X","Y","Z">>

LowerCase == <<"a","b","c","d","e","f","g","h","i","j","k","l","m","n","o","p","q","r","s","t","u","v","w","x","y","z">>

\* str.lower, one character
lower_char(c) ==
  IF \E k \in DOMAIN UpperCase : UpperCase[k] = c
    THEN LowerCase[CHOOSE k \in DOMAIN UpperCase : UpperCase[k] = c]
    ELSE c

\* str.lower
lower_chars(s) ==
  LET F[i \in 0..Len(s)] ==
        IF i = 0 THEN <<>> ELSE Append(F[i - 1], lower_char(s[i]))
  IN  F[Len(s)]

\* str.strip
RECURSIVE strip_chars(_)
strip_chars(s) ==
  IF s = <<>> THEN s
  ELSE IF Head(s) = " " THEN strip_chars(Tail(s))
  ELSE IF s[Len(s)] = " " THEN strip_chars(SubSeq(s, 1, Len(s) - 1))
  ELSE s

\* str.startswith, str.endswith
startswith(s, prefix) ==
  Len(s) >= Len(prefix) /\ SubSeq(s, 1, Len(prefix)) = prefix

endswith(s, suffix) ==
  Len(s) >= Len(suffix) /\ SubSeq(s, Len(s) - Len(suffix) + 1, Len(s)) = suffix

\* re.search of a literal pattern
Contains(s, sub) ==
  \E i \in 1..(Len(s) - Len(sub) + 1) : SubSeq(s, i, i + Len(sub) - 1) = sub

\* SENSITIVE_PATTERNS, each `_?` written out as its two readings
SENSITIVE_PATTERNS ==
  {
    <<"p", "a", "s", "s", "w", "o", "r", "d">>,
    <<"p", "a", "s", "s", "w", "d">>,
    <<"p", "w", "d">>,
    <<"s", "e", "c", "r", "e", "t">>,
    <<"t", "o", "k", "e", "n">>,
    <<"a", "p", "i", "_", "k", "e", "y">>,
    <<"a", "p", "i", "k", "e", "y">>,
    <<"a", "c", "c", "e", "s", "s", "_", "k", "e", "y">>,
    <<"a", "c", "c", "e", "s", "s", "k", "e", "y">>,
    <<"a", "u", "t", "h", "_", "k", "e", "y">>,
    <<"a", "u", "t", "h", "k", "e", "y">>,
    <<"c", "r", "e", "d", "e", "n", "t", "i", "a", "l">>,
    <<"p", "r", "i", "v", "a", "t", "e", "_", "k", "e", "y">>,
    <<"p", "r", "i", "v", "a", "t", "e", "k", "e", "y">>,
    <<"s", "e", "c", "r", "e", "t", "_", "k", "e", "y">>,
    <<"s", "e", "c", "r", "e", "t", "k", "e", "y">>,
    <<"e", "n", "c", "r", "y", "p", "t", "i", "o", "n", "_", "k", "e", "y">>,
    <<"e", "n", "c", "r", "y", "p", "t", "i", "o", "n", "k", "e", "y">>,
    <<"s", "i", "g", "n", "i", "n", "g", "_", "k", "e", "y">>,
    <<"s", "i", "g", "n", "i", "n", "g", "k", "e", "y">>,
    <<"j", "w", "t", "_", "s", "e", "c", "r", "e", "t">>,
    <<"j", "w", "t", "s", "e", "c", "r", "e", "t">>,
    <<"s", "e", "s", "s", "i", "o", "n", "_", "k", "e", "y">>,
    <<"s", "e", "s", "s", "i", "o", "n", "k", "e", "y">>,
    <<"c", "o", "o", "k", "i", "e", "_", "s", "e", "c", "r", "e", "t">>,
    <<"c", "o", "o", "k", "i", "e", "s", "e", "c", "r", "e", "t">>,
    <<"d", "b", "_", "p", "a", "s", "s", "w", "o", "r", "d">>,
    <<"d", "b", "p", "a", "s", "s", "w", "o", "r", "d">>,
    <<"d", "a", "t", "a", "b", "a", "s", "e", "_", "p", "a", "s", "s", "w", "o", "r", "d">>,
    <<"d", "a", "t", "a", "b", "a", "s", "e", "p", "a", "s", "s", "w", "o", "r", "d">>,
    <<"m", "y", "s", "q", "l", "_", "p", "a", "s", "s", "w", "o", "r", "d">>,
    <<"m", "y", "s", "q", "l", "p", "a", "s", "s", "w", "o", "r", "d">>,
    <<"p", "o", "s", "t", "g", "r", "e", "s", "_", "p", "a", "s", "s", "w", "o", "r", "d">>,
    <<"p", "o", "s", "t", "g", "r", "e", "s", "p", "a", "s", "s", "w", "o", "r", "d">>,
    <<"r", "e", "d", "i", "s", "_", "p", "a", "s", "s", "w", "o", "r", "d">>,
    <<"r", "e", "d", "i", "s", "p", "a", "s", "s", "w", "o", "r", "d">> }

PLACEHOLDER_VALUES ==
  {
    <<>>,
    <<"x", "x", "x">>,
    <<"x", "x", "x", "x">>,
    <<"c", "h", "a", "n", "g", "e", "m", "e">>,
    <<"y", "o", "u", "r", "_", "p", "a", "s", "s", "w", "o", "r", "d">>,
    <<"y", "o", "u", "r", "_", "s", "e", "c", "r", "e", "t">>,
    <<"y", "o", "u", "r", "_", "t", "o", "k", "e", "n">>,
    <<"y", "o", "u", "r", "_", "a", "p", "i", "_", "k", "e", "y">>,
    <<"p", "l", "a", "c", "e", "h", "o", "l", "d", "e", "r">>,
    <<"e", "x", "a", "m", "p", "l", "e">>,
    <<"t", "e", "s", "t">>,
    <<"d", "e", "m", "o">>,
    <<"s", "a", "m", "p", "l", "e">>,
    <<"n", "o", "n", "e">>,
    <<"n", "u", "l", "l">>,
    <<"n", "/", "a">>,
    <<"n", "a">>,
    <<"u", "n", "d", "e", "f", "i", "n", "e", "d">>,
    <<"t", "o", "d", "o">>,
    <<"f", "i", "x", "m", "e">>,
    <<"<", "p", "a", "s", "s", "w", "o", "r", "d", ">">>,
    <<"<", "s", "e", "c", "r", "e", "t", ">">>,
    <<"<", "t", "o", "k", "e", "n", ">">>,
    <<"{", "p", "a", "s", "s", "w", "o", "r", "d", "}">>,
    <<"{", "s", "e", "c", "r", "e", "t", "}">>,
    <<"$", "{", "p", "a", "s", "s", "w", "o", "r", "d", "}">>,
    <<"$", "{", "s", "e", "c", "r", "e", "t", "}">>,
    <<"p", "a", "s", "s", "w", "o", "r", "d">>,
    <<"s", "e", "c", "r", "e", "t">>,
    <<"t", "o", "k", "e", "n">>,
    <<"e", "n", "v">>,
    <<"o", "s", ".", "e", "n", "v", "i", "r", "o", "n">>,
    <<"o", "s", ".", "g", "e", "t", "e", "n", "v">> }

MIN_SECRET_LENGTH == 6

\* HardcodedSecretsRule._is_sensitive_name
is_sensitive_name(name) ==
  \E pattern \in SENSITIVE_PATTERNS : Contains(lower_chars(name), pattern)

\* value nodes: a str constant, another constant, any other expression
StrConstant(value) == [class |-> "Constant", str |-> TRUE, value |-> value]

IntConstant == [class |-> "Constant", str |-> FALSE, value |-> <<>>]

NameNode(id) == [class |-> "Name", id |-> id]

AttributeNode(attr) == [class |-> "Attribute", id |-> attr]

NoValue == [class |-> "None"]

\* variant: a value of exactly the minimum length counts as too short
is_hardcoded_secret_min_excluded(node) ==
  IF node.class = "Constant" /\ node.str
    THEN LET value       == node.value
             value_lower == strip_chars(lower_chars(value))
         IN  IF value_lower \in PLACEHOLDER_VALUES THEN FALSE
             ELSE IF Len(value) <= MIN_SECRET_LENGTH THEN FALSE
             ELSE IF startswith(value, <<"$", "{">>) \/ startswith(value, <<"$">>) THEN FALSE
             ELSE IF startswith(value, <<"{">>) /\ endswith(value, <<"}">>) THEN FALSE
             ELSE IF startswith(value, <<"<">>) /\ endswith(value, <<">">>) THEN FALSE
             ELSE TRUE
    ELSE FALSE

\* HardcodedSecretsRule._is_hardcoded_secret
is_hardcoded_secret(node) ==
  IF node.class = "Constant" /\ node.str
    THEN LET value       == node.value
             value_lower == strip_chars(lower_chars(value))
         IN  IF value_lower \in PLACEHOLDER_VALUES THEN FALSE
             ELSE IF Len(value) < MIN_SECRET_LENGTH THEN FALSE
             ELSE IF startswith(value, <<"$", "{">>) \/ startswith(value, <<"$">>) THEN FALSE
             ELSE IF startswith(value, <<"{">>) /\ endswith(value, <<"}">>) THEN FALSE
             ELSE IF startswith(value, <<"<">>) /\ endswith(value, <<">">>) THEN FALSE
             ELSE TRUE
    ELSE FALSE

\* HardcodedSecretsRule._create_secret_vuln: severity is the rule's own
create_secret_vuln(file_path, line, var_name) ==
  new_vulnerability("SEC001", "high", file_path, line,
                    <<"variable '", var_name, "' holds a hardcoded secret">>)

\* statement nodes
Assign(targets, value) == [class |-> "Assign", targets |-> targets, value |-> value]

AnnAssign(target, value) == [class |-> "AnnAssign", targets |-> <<target>>, value |-> value]

\* a dict display: keys and values side by side
DictNode(keys, values) == [class |-> "Dict", keys |-> keys, values |-> values]

\* a call with keyword arguments: names and values side by side
KeywordCall(names, values) == [class |-> "Call", keys |-> names, values |-> values]

\* one finding for every position whose name is sensitive and whose value
\* is a hardcoded secret, in order
secret_findings(names, values, file_path, line) ==
  LET F[i \in 0..Len(names)] ==
        IF i = 0 THEN <<>>
        ELSE IF is_sensitive_name(names[i]) /\ is_hardcoded_secret(values[i])
               THEN Append(F[i - 1], create_secret_vuln(file_path, line, names[i]))
               ELSE F[i - 1]
  IN  F[Len(names)]

\* HardcodedSecretsRule.check on one node
check_secret_node(node, file_path, line) ==
  CASE node.class = "Assign" ->
         LET named == SelectSeq(node.targets, LAMBDA t : t.class = "Name")
         IN  secret_findings([i \in DOMAIN named |-> named[i].id],
                             [i \in DOMAIN named |-> node.value], file_path, line)
    [] node.class = "AnnAssign" ->
         IF node.targets[1].class = "Name" /\ node.value # NoValue
           THEN secret_findings(<<node.targets[1].id>>, <<node.value>>, file_path, line)
           ELSE <<>>
    [] node.class = "Dict" ->
         LET F[i \in 0..Len(node.keys)] ==
               IF i = 0 THEN <<>>
               ELSE IF node.keys[i].class = "Constant" /\ node.keys[i].str
                      THEN F[i - 1] \o secret_findings(<<node.keys[i].value>>,
                                                       <<node.values[i]>>, file_path, line)
                      ELSE F[i - 1]
         IN  F[Len(node.keys)]
    [] node.class = "Call" ->
         secret_findings(node.keys, node.values, file_path, line)
    [] OTHER -> <<>>

\* HardcodedSecretsRule.check. ast.walk is breadth-first: the statements
\* themselves (Assign, AnnAssign) come before the expressions inside
\* expression statements (Dict, Call), each group in source order.
HardcodedSecretsRule_check(tree, file_path) ==
  LET Level(n) == IF tree[n].class \in {"Assign", "AnnAssign"} THEN 1 ELSE 2
      F[k \in 0..(2 * Len(tree))] ==
        IF k = 0 THEN <<>>
        ELSE LET level == ((k - 1) \div Len(tree)) + 1
                 n     == ((k - 1) % Len(tree)) + 1
             IN  IF Level(n) = level
                   THEN F[k - 1] \o check_secret_node(tree[n], file_path, n)
                   ELSE F[k - 1]
  IN  F[2 * Len(tree)]

\* the texts the statements are built from
Password == <<"p", "a", "s", "s", "w", "o", "r", "d">>

ApiKey == <<"A", "P", "I", "_", "K", "E", "Y">>

User == <<"u", "s", "e", "r">>

Secret123 == <<"s", "e", "c", "r", "e", "t", "1", "2", "3">>

\* str values: empty, a placeholder in another letter case, one below and
\* one at the minimum length, a real secret, two environment references,
\* two configuration placeholders
SecretValues ==
  {
    <<>>,
    <<"C", "h", "a", "n", "g", "e", "M", "e", " ">>,
    <<"a", "b", "c", "1", "2">>,
    <<"a", "b", "c", "1", "2", "3">>,
    <<"s", "e", "c", "r", "e", "t", "1", "2", "3">>,
    <<"$", "{", "D", "B", "_", "P", "A", "S", "S", "}">>,
    <<"$", "H", "O", "M", "E", "_", "D", "I", "R">>,
    <<"{", "d", "b", "_", "p", "a", "s", "s", "w", "o", "r", "d", "}">>,
    <<"<", "y", "o", "u", "r", "-", "k", "e", "y", ">">> }

SecretStatements ==
  { Assign(<<NameNode(Password)>>, StrConstant(v)) : v \in SecretValues }
    \cup
  { Assign(<<NameNode(Password)>>, IntConstant),
    Assign(<<NameNode(Password)>>, NameNode(ApiKey)),
    Assign(<<NameNode(ApiKey)>>, StrConstant(Secret123)),
    Assign(<<NameNode(User)>>, StrConstant(Secret123)),
    Assign(<<AttributeNode(Password)>>, StrConstant(Secret123)),
    Assign(<<NameNode(Password), NameNode(ApiKey)>>, StrConstant(Secret123)),
    AnnAssign(NameNode(Password), StrConstant(Secret123)),
    AnnAssign(NameNode(Password), NoValue),
    DictNode(<<StrConstant(Password), StrConstant(User)>>,
             <<StrConstant(Secret123), StrConstant(Secret123)>>),
    KeywordCall(<<User, Password>>, <<StrConstant(Secret123), StrConstant(Secret123)>>) }

SecretTrees == UNION { [1..n -> SecretStatements] : n \in 1..MaxStatements }

(***************************************************************************)
(* ignore_handler.py: the four directive patterns on the text of a line.   *)
(* A line is held as the comment marker and the keyword it shows, each a   *)
(* sequence of characters, and the bracket's pieces.                       *)
(***************************************************************************)
MaxCaseLines == 3

RawLine(marker, keyword, group) == [marker |-> marker, keyword |-> keyword, group |-> group]

\* the literal parts of the patterns
PysecMarker == <<"p", "y", "s", "e", "c">>

IgnoreKeyword == <<"i", "g", "n", "o", "r", "e">>

IgnoreFileKeyword == <<"i", "g", "n", "o", "r", "e", "-", "f", "i", "l", "e">>

DisableKeyword == <<"d", "i", "s", "a", "b", "l", "e">>

EnableKeyword == <<"e", "n", "a", "b", "l", "e">>

\* variant: the patterns compiled without re.IGNORECASE
search_case_sensitive(keyword, line) ==
  line.marker = PysecMarker /\ line.keyword = keyword

\* PATTERN.search(line) for a pattern compiled with re.IGNORECASE
search(keyword, line) ==
  lower_chars(line.marker) = PysecMarker /\ lower_chars(line.keyword) = keyword

\* parse_source: the first pattern that matches decides what the line is
classify(line) ==
  IF search(IgnoreFileKeyword, line) THEN Directive("ignore-file", line.group)
  ELSE IF search(DisableKeyword, line) THEN Directive("disable", line.group)
  ELSE IF search(EnableKeyword, line) THEN Directive("enable", line.group)
  ELSE IF search(IgnoreKeyword, line) THEN Directive("ignore", line.group)
  ELSE CodeLine

\* IgnoreHandler.parse_source on the text as written
parse_source(text) ==
  LET F[n \in 0..Len(text)] ==
        IF n = 0 THEN <<>> ELSE Append(F[n - 1], classify(text[n]))
  IN  ParseSource(F[Len(text)])

RawLines ==
  { RawLine(<<>>, <<>>, NoGroup),
    RawLine(<<"p", "y", "s", "e", "c", "s">>, <<"i", "g", "n", "o", "r", "e">>, NoGroup),
    RawLine(<<"P", "Y", "S", "E", "C">>, <<"I", "G", "N", "O", "R", "E">>, Group(<<"a">>)),
    RawLine(<<"P", "y", "S", "e", "C">>, <<"D", "i", "s", "a", "b", "l", "e">>, NoGroup),
    RawLine(<<"p", "y", "S", "e", "c">>, <<"E", "n", "a", "b", "l", "e">>, Group(<<" b">>)),
    RawLine(<<"p", "y", "s", "e", "c">>, <<"e", "n", "a", "b", "l", "e">>, NoGroup),
    RawLine(<<"P", "y", "s", "e", "c">>, <<"I", "g", "n", "o", "r", "e", "-", "F", "i", "l", "e">>, Group(<<"a">>)),
    RawLine(<<"p", "y", "s", "e", "c">>, <<"i", "g", "n", "o", "r", "e", "-", "f", "i", "l", "e">>, Group(<<"B">>)) }

RawTexts == UNION { [1..n -> RawLines] : n \in 1..MaxCaseLines }

(***************************************************************************)
(* Spec: parse_source, one line per step                                   *)
(***************************************************************************)
\* no SeverityAdjuster or ScanResult method is being called
NoOp == [op |-> "none"]

NoUnit ==
  /\ adjuster = DefaultAdjuster
  /\ call = NoOp
  /\ ret = ""

\* the registry as the import left it, and the rules an engine with no
\* rule selection loads from it
RegistryAsImported ==
  /\ RULE_REGISTRY = ImportedRegistry
  /\ rules = load_rules(DefaultConfig, ImportedRegistry)

\* no earlier scan to compare with
NoPrevious == [none |-> TRUE]

\* one interpreter process, nothing scanned in it yet
NoProcess ==
  /\ hash_seed = CHOOSE o \in HashSeeds : TRUE
  /\ previous = NoPrevious

(***************************************************************************)
(* advanced_scanner.py: AdvancedSecurityScanner, its ScanCache and the     *)
(* worker threads of one scan                                              *)
(***************************************************************************)
MaxScanCalls == 2

\* VulnerabilitySeverity: member name -> value
VulnerabilitySeverity ==
  [CRITICAL |-> "critical", HIGH |-> "high", MEDIUM |-> "medium",
   LOW |-> "low", INFO |-> "info"]

\* VulnerabilitySeverity(value): the member that has the value
SeverityOfValue(value) ==
  CHOOSE m \in DOMAIN VulnerabilitySeverity : VulnerabilitySeverity[m] = value

\* AdvancedSecurityScanner.severity_priority
severity_priority ==
  [CRITICAL |-> 5, HIGH |-> 4, MEDIUM |-> 3, LOW |-> 2, INFO |-> 1]

\* advanced_scanner.Vulnerability
AdvVulnerability(file_path, line_no, severity, rule_id) ==
  [file_path |-> file_path, line_number |-> line_no,
   severity |-> severity, rule_id |-> rule_id]

\* Vulnerability.to_dict: the severity is stored by its value
to_dict(v) == [v EXCEPT !.severity = VulnerabilitySeverity[v.severity]]

\* the lines of the files under the scan path, by what the four textual
\* detectors find in them
ImportRandomLine == "import random"

CredentialLine == "password=\"hunter2xx\""

RandomLine == "x = random.random()"

DangerousLine == "eval(\"1\")"

SqlLine == "cursor.execute(\"select \" + x)"

AdvFiles == {"a.py", "b.py"}

\* the text of each file; the files do not change between scans
FileContent ==
  [f \in AdvFiles |->
     IF f = "a.py" THEN <<ImportRandomLine, CredentialLine, RandomLine>>
                   ELSE <<DangerousLine, SqlLine>>]

\* ScanCache.get_file_hash: the digest stands for the text
get_file_hash(file_path) == FileContent[file_path]

\* what _find_python_files returns for the scan paths used: the directory
\* and one file of it
ScanPaths == { <<"a.py", "b.py">>, <<"a.py">> }

\* one detector pass over the lines: a finding for every line that matches
\* the detector's pattern
DetectorPass(file_path, content, pattern, severity, rule_id) ==
  LET F[n \in 0..Len(content)] ==
        IF n = 0 THEN <<>>
        ELSE IF content[n] = pattern
               THEN Append(F[n - 1], AdvVulnerability(file_path, n, severity, rule_id))
               ELSE F[n - 1]
  IN  F[Len(content)]

\* _scan_single_file, the four detectors in their order
detect(file_path, content) ==
  LET imports_random  == /\ \E n \in DOMAIN content : content[n] = ImportRandomLine
                         /\ \E n \in DOMAIN content : content[n] = RandomLine
  IN  DetectorPass(file_path, content, CredentialLine, "HIGH", "SEC001")
        \o DetectorPass(file_path, content, DangerousLine, "CRITICAL", "DNG001")
        \o DetectorPass(file_path, content, SqlLine, "HIGH", "SQL001")
        \o (IF imports_random
              THEN DetectorPass(file_path, content, RandomLine, "MEDIUM", "RND001")
              ELSE <<>>)

\* _scan_single_file, the filter on self.min_severity
filter_min_severity(vulnerabilities, min_severity) ==
  LET Keep(v) == severity_priority[v.severity] >= severity_priority[min_severity]
  IN  SelectSeq(vulnerabilities, Keep)

\* self.cache.get(file_path, {})
NoEntry == [hash |-> <<>>, vulnerabilities |-> <<>>]

EmptyCache == [f \in AdvFiles |-> NoEntry]

\* ScanCache.is_file_changed
is_file_changed(c, file_path) == get_file_hash(file_path) # c[file_path].hash

\* ScanCache.update_file_cache
update_file_cache(c, file_path, vulnerabilities) ==
  [c EXCEPT ![file_path] =
     [hash |-> get_file_hash(file_path),
      vulnerabilities |-> [i \in DOMAIN vulnerabilities |-> to_dict(vulnerabilities[i])]]]

\* ScanCache.get_cached_vulns
get_cached_vulns(c, file_path) ==
  LET d == c[file_path].vulnerabilities
  IN  [i \in DOMAIN d |->
         AdvVulnerability(file_path, d[i].line_number,
                          SeverityOfValue(d[i].severity), d[i].rule_id)]

\* self.progress: None until a scan with show_progress builds the bar
NoProgress == "None"

ProgressBar == "AdvancedProgressBar"

\* advanced_scanner.ScanResult()
NewAdvResult ==
  [total_files |-> 0, scanned_files |-> 0, vulnerabilities |-> <<>>, error_files |-> <<>>]

\* AdvancedSecurityScanner.__init__
NewAdvancedScanner(min_severity, use_cache, use_multithreading, show_progress) ==
  [constructed |-> TRUE, min_severity |-> min_severity, use_cache |-> use_cache,
   use_multithreading |-> use_multithreading, show_progress |-> show_progress,
   progress |-> NoProgress, result |-> NewAdvResult, calls |-> 0]

\* no AdvancedSecurityScanner has been built
NoScanner == [constructed |-> FALSE]

\* what one _scan_single_file call leaves behind: whether it raised, whether
\* it took the cache path, the list it returned, and the cache and
\* error_files after it
scan_single_file(sc, c, file_path) ==
  LET hit      == sc.use_cache /\ ~is_file_changed(c, file_path)
      scanned  == filter_min_severity(detect(file_path, FileContent[file_path]),
                                      sc.min_severity)
      c_after  == IF ~hit /\ sc.use_cache
                    THEN update_file_cache(c, file_path, scanned) ELSE c
      \* self.progress.update on None raises AttributeError inside the try;
      \* the handler records the error and calls self.progress.update again,
      \* which raises out of the method
      no_bar   == sc.progress = NoProgress
  IN  [raised          |-> no_bar,
       skipped         |-> hit,
       vulnerabilities |-> IF no_bar THEN <<>>
                           ELSE IF hit THEN get_cached_vulns(c, file_path)
                           ELSE scanned,
       cache           |-> c_after,
       error_files     |-> IF no_bar THEN Append(sc.result.error_files, file_path)
                           ELSE sc.result.error_files]

\* a future of the pool, or a call of the loop, that has not run yet
Pending == [state |-> "pending"]

\* no scan is under way
NoTasks == [pc |-> "idle"]

NoAdvanced ==
  /\ cache = EmptyCache
  /\ scanner = NoScanner
  /\ tasks = NoTasks

(***************************************************************************)
(* scanner.py: Scanner, its global timeout and the generators scan_target  *)
(* and scan_files                                                          *)
(***************************************************************************)
MaxClock == 3

\* timeout is None, file_timeout is None, start_time is None
NoTimeout == -1

NoStartTime == -1

\* the files of the target directory as FileScanner.scan_directory yields
\* them: one that parses, one with a syntax error
DirectoryFiles == <<"a.py", "bad.py">>

\* a path that scan_file rejects (not a .py file) and one that is no file
RejectedFile == "notes.txt"

MissingFile == "gone.py"

\* FileScanner.scan_file: the path when the file should be scanned
scan_file(file_path) == file_path \in Range(DirectoryFiles)

\* os.path.isfile
isfile(file_path) == file_path \in Range(DirectoryFiles) \cup {RejectedFile}

\* the targets of scan_target: a file, a directory, a path that is neither
ScanTargets == {"a.py", RejectedFile, "project", MissingFile}

isdir(target) == target = "project"

\* the lists handed to scan_files
FileLists ==
  { <<"a.py", "bad.py">>, <<"bad.py", "a.py">>, <<MissingFile, "a.py">>,
    <<RejectedFile, "a.py">>, <<>> }

\* (file_path, tree, source, error): the tree is kept as whether there is one
Yielded(file_path, tree, error) == [file_path |-> file_path, tree |-> tree, error |-> error]

GlobalTimeoutError == "global timeout"

FileTimeoutError == "file timeout"

SyntaxErrorMessage == "syntax error"

PathMissingError == "target does not exist"

FileMissingError == "file does not exist"

\* ASTParser.parse_file
parse_file(file_path) ==
  IF file_path = "bad.py" THEN Yielded(file_path, FALSE, SyntaxErrorMessage)
  ELSE Yielded(file_path, TRUE, NoError)

\* Scanner.__init__
NewScanner(use_cache, timeout, file_timeout) ==
  [use_cache |-> use_cache, timeout |-> timeout, file_timeout |-> file_timeout,
   start_time |-> NoStartTime, ast_cache |-> {},
   timeout_triggered |-> FALSE, scanned_files |-> 0, total_files |-> 0]

\* variant: the clock is read again although the timeout was detected before
check_global_timeout_unlatched(sc, now) ==
  IF sc.timeout = NoTimeout \/ sc.start_time = NoStartTime
    THEN [timed_out |-> FALSE, scanner |-> sc]
  ELSE IF now - sc.start_time > sc.timeout
    THEN [timed_out |-> TRUE, scanner |-> [sc EXCEPT !.timeout_triggered = TRUE]]
  ELSE [timed_out |-> FALSE, scanner |-> sc]

\* Scanner._check_global_timeout, with time.time() = now: what it returns and
\* the scanner after it
check_global_timeout(sc, now) ==
  IF sc.timeout_triggered THEN [timed_out |-> TRUE, scanner |-> sc]
  ELSE IF sc.timeout = NoTimeout \/ sc.start_time = NoStartTime
    THEN [timed_out |-> FALSE, scanner |-> sc]
  ELSE IF now - sc.start_time > sc.timeout
    THEN [timed_out |-> TRUE, scanner |-> [sc EXCEPT !.timeout_triggered = TRUE]]
  ELSE [timed_out |-> FALSE, scanner |-> sc]

\* Scanner._parse_with_timeout: with a file_timeout the parse may be cut off
parse_with_timeout(sc, file_path, cut_off) ==
  IF sc.file_timeout # NoTimeout /\ cut_off
    THEN Yielded(file_path, FALSE, FileTimeoutError)
    ELSE parse_file(file_path)

\* Scanner._parse_file_with_cache: the tuple it returns, the scanner after
\* it, and whether a tree was fetched or a parse was started; cache_hit says
\* whether a stored entry is still fresh
parse_file_with_cache(sc, now, file_path, cache_hit, cut_off) ==
  LET checked == check_global_timeout(sc, now)
      after   == checked.scanner
      parsed  == parse_with_timeout(after, file_path, cut_off)
  IN  IF checked.timed_out
        THEN [yielded |-> Yielded(file_path, FALSE, GlobalTimeoutError),
              scanner |-> after, parsed |-> FALSE]
      ELSE IF after.use_cache /\ file_path \in after.ast_cache /\ cache_hit
        THEN [yielded |-> Yielded(file_path, TRUE, NoError),
              scanner |-> after, parsed |-> TRUE]
      ELSE [yielded |-> parsed,
            scanner |-> IF parsed.tree /\ after.use_cache /\ parsed.error = NoError
                          THEN [after EXCEPT !.ast_cache = @ \cup {file_path}]
                          ELSE after,
            parsed  |-> TRUE]

\* no generator of the scanner has been created
NoGenerator ==
  [frame |-> 0, pc |-> "idle", method |-> "", single |-> FALSE, file_paths |-> <<>>,
   i |-> 1, yielded |-> Yielded("", FALSE, NoError), parsed |-> <<>>]

NoTimeouts ==
  /\ clock = 0
  /\ ast_scanner = NewScanner(FALSE, NoTimeout, NoTimeout)
  /\ generator = NoGenerator

NoRuntime ==
  /\ NoProcess
  /\ NoAdvanced
  /\ NoTimeouts

NoCall ==
  /\ source_code = <<>>
  /\ filename = ""
  /\ raw = <<>>
  /\ result = NewScanResult("")
  /\ ast_tree = FALSE
  /\ outcomes = NoOutcome
  /\ files = <<>>

NoScan ==
  /\ config = DefaultConfig
  /\ NoCall

Init ==
  /\ lines = <<>>
  /\ line_number = 0
  /\ active_disables = ParserStart.active_disables
  /\ context = ParserStart.context
  /\ pc = "loop"
  /\ NoScan
  /\ NoUnit
  /\ RegistryAsImported
  /\ NoRuntime

\* the loop body on the next line of the text
Iterate(line) ==
  /\ pc = "loop"
  /\ Len(lines) < MaxLines
  /\ LET n  == line_number + 1
         st == ParseLine([context |-> context, active_disables |-> active_disables], n, line)
     IN  /\ lines' = Append(lines, line)
         /\ line_number' = n
         /\ context' = st.context
         /\ active_disables' = st.active_disables
  /\ UNCHANGED <<pc, scanVars, unitVars, registryVars, runtimeVars>>

ReadFileIgnore == \E line \in FileLines : Iterate(line)

ReadDisable == \E line \in DisableLines : Iterate(line)

ReadEnable == \E line \in EnableLines : Iterate(line)

ReadInlineIgnore == \E line \in InlineLines : Iterate(line)

ReadCode == Iterate(CodeLine)

\* str.split always yields at least one line
EndOfFile ==
  /\ pc = "loop"
  /\ Len(lines) >= 1
  /\ context' = CloseUnclosed([context |-> context, active_disables |-> active_disables],
                              Len(lines))
  /\ pc' = "parsed"
  /\ UNCHANGED <<lines, line_number, active_disables, scanVars, unitVars, registryVars, runtimeVars>>

Next ==
  \/ ReadFileIgnore
  \/ ReadDisable
  \/ ReadEnable
  \/ ReadInlineIgnore
  \/ ReadCode
  \/ EndOfFile

Spec == Init /\ [][Next]_vars

(***************************************************************************)
(* SpecScan: a SecurityScanner and its scan_code calls                     *)
(***************************************************************************)
Configs ==
  [min_severity       : {NoSeverity} \cup Range(SEVERITY_LEVELS),
   dynamic_severity   : BOOLEAN,
   severity_overrides : {NoOverrides, ("A" :> "critical")},
   enabled_rules      : {None},
   disabled_rules     : {None}]

ScanLineAlphabet ==
  { CodeLine,
    Directive("ignore", Group(<<"a">>)),
    Directive("ignore-file", Group(<<"B">>)),
    Directive("disable", NoGroup),
    Directive("enable", NoGroup) }

ScanSources ==
  UNION { [1..n -> ScanLineAlphabet] : n \in 1..MaxScanLines }

\* the target of a scan: a directory whose listing is some of these files,
\* in this order
MaxFiles == 2

TargetDir == "project"

FileOrder == <<"src/api/handler.py", "tests/test_cmd.py", "util.py">>

Listings ==
  { [i \in DOMAIN idx |-> FileOrder[idx[i]]] :
      idx \in { f \in UNION { [1..n -> DOMAIN FileOrder] : n \in 1..MaxFiles } :
                  \A i \in DOMAIN f : \A j \in DOMAIN f : i < j => f[i] < f[j] } }

FileSources == { <<CodeLine>>, <<Directive("ignore", Group(<<"a">>))>> }

\* what scan_target can yield for one file of the listing
FileYields(file_path) ==
  { Unparsed(file_path, src) : src \in FileSources }
    \cup
  { Parsed(file_path, src, ("A" :> oA) @@ ("B" :> oB)) :
      src \in FileSources,
      oA \in CheckOutcomes("A", file_path, 1),
      oB \in CheckOutcomes("B", file_path, 1) }

\* what scan_target can yield for a listing
TargetYields(listing) ==
  LET F[i \in 0..Len(listing)] ==
        IF i = 0 THEN {<<>>}
        ELSE { Append(y, f) : y \in F[i - 1], f \in FileYields(listing[i]) }
  IN  F[Len(listing)]

\* every finding the rules returned, file by file, before suppression
collect_all(yielded) ==
  LET F[i \in 0..Len(yielded)] ==
        IF i = 0 THEN <<>>
        ELSE IF yielded[i].ast_tree THEN F[i - 1] \o collect(yielded[i].outcome)
             ELSE F[i - 1]
  IN  F[Len(yielded)]

NoParse ==
  /\ lines = <<>>
  /\ line_number = 0
  /\ active_disables = ParserStart.active_disables
  /\ context = ParserStart.context
  /\ pc = "idle"

InitScan ==
  /\ NoParse
  /\ config \in Configs
  /\ NoCall
  /\ NoUnit
  /\ RegistryAsImported
  /\ NoRuntime

\* one call of scan_code; the scanner keeps nothing of it but the result
\* it hands back
ScanCode ==
  /\ pc = "idle"
  /\ \E src \in ScanSources : \E fn \in Filenames :
       \E outcomeA \in CheckOutcomes("A", fn, Len(src)) :
         \E outcomeB \in CheckOutcomes("B", fn, Len(src)) :
           LET out == ("A" :> outcomeA) @@ ("B" :> outcomeB)
           IN  /\ source_code' = src
               /\ filename' = fn
               /\ outcomes' = out
               /\ raw' = collect(out)
               /\ result' = scan_code(config, src, fn, out)
  /\ ast_tree' = TRUE
  /\ pc' = "returned"
  /\ UNCHANGED <<config, files, lines, line_number, active_disables, context,
                 unitVars, registryVars, runtimeVars>>

ScanCodeSyntaxError ==
  /\ pc = "idle"
  /\ \E src \in ScanSources : \E fn \in Filenames :
       /\ source_code' = src
       /\ filename' = fn
       /\ raw' = <<>>
       /\ result' = scan_code_syntax_error(config, src, fn)
  /\ ast_tree' = FALSE
  /\ outcomes' = NoOutcome
  /\ pc' = "returned"
  /\ UNCHANGED <<config, files, lines, line_number, active_disables, context,
                 unitVars, registryVars, runtimeVars>>

\* one call of scan on a directory
Scan ==
  /\ pc = "idle"
  /\ \E listing \in Listings : \E yielded \in TargetYields(listing) :
       /\ files' = yielded
       /\ raw' = collect_all(yielded)
       /\ result' = scan(config, TargetDir, yielded)
  /\ filename' = TargetDir
  /\ pc' = "scanned"
  /\ UNCHANGED <<config, source_code, ast_tree, outcomes,
                 lines, line_number, active_disables, context,
                 unitVars, registryVars, runtimeVars>>

\* the caller is done with the ScanResult; the scanner is ready again
NextCall ==
  /\ pc \in {"returned", "scanned"}
  /\ pc' = "idle"
  /\ source_code' = <<>>
  /\ filename' = ""
  /\ raw' = <<>>
  /\ result' = NewScanResult("")
  /\ ast_tree' = FALSE
  /\ outcomes' = NoOutcome
  /\ files' = <<>>
  /\ UNCHANGED <<config, lines, line_number, active_disables, context,
                 unitVars, registryVars, runtimeVars>>

NextScan == ScanCode \/ ScanCodeSyntaxError \/ Scan \/ NextCall

SpecScan == InitScan /\ [][NextScan]_vars

(***************************************************************************)
(* SpecAdjust: a SeverityAdjuster and the calls of its two methods         *)
(***************************************************************************)
Adjusters ==
  [enabled               : BOOLEAN,
   upgrade_for_sensitive : BOOLEAN,
   downgrade_for_tests   : BOOLEAN,
   consider_user_input   : BOOLEAN]

BaseSeverities == Range(SEVERITY_ORDER) \cup {"HIGH", "Info"}

Contexts ==
  [file_path     : Filenames,
   function_name : {NoName, "login", "test_login"},
   class_name    : {NoName, "AuthService"},
   code_snippet  : {RuleSnippet(r) : r \in RuleIds},
   line_number   : {1}]

InitAdjust ==
  /\ NoParse
  /\ NoScan
  /\ RegistryAsImported
  /\ adjuster \in Adjusters
  /\ call = NoOp
  /\ ret = ""
  /\ NoRuntime

AdjustSeverity ==
  /\ call = NoOp
  /\ \E base_severity \in BaseSeverities : \E ctx \in Contexts :
       /\ call' = [op |-> "adjust_severity", base_severity |-> base_severity,
                   context |-> ctx]
       /\ ret' = adjust_severity(adjuster, base_severity, ctx)
  /\ UNCHANGED <<adjuster, parseVars, scanVars, registryVars, runtimeVars>>

GetAdjustmentReasons ==
  /\ call = NoOp
  /\ \E ctx \in Contexts :
       /\ call' = [op |-> "get_adjustment_reasons", context |-> ctx]
       /\ ret' = get_adjustment_reasons(adjuster, ctx)
  /\ UNCHANGED <<adjuster, parseVars, scanVars, registryVars, runtimeVars>>

\* the caller has the returned value; the adjuster itself never changes
Return ==
  /\ call # NoOp
  /\ call' = NoOp
  /\ ret' = ""
  /\ UNCHANGED <<adjuster, parseVars, scanVars, registryVars, runtimeVars>>

NextAdjust == AdjustSeverity \/ GetAdjustmentReasons \/ Return

SpecAdjust == InitAdjust /\ [][NextAdjust]_vars

(***************************************************************************)
(* SpecFilter: a ScanResult and the calls of filter_by_severity on it      *)
(***************************************************************************)
MaxFindings == 3

\* a finding of the given severity on the given line
Finding(severity, line) ==
  [rule_id      |-> "A",
   severity     |-> severity,
   file_path    |-> "util.py",
   line_number  |-> line,
   code_snippet |-> RuleSnippet("A")]

FindingLists ==
  { [i \in DOMAIN sev |-> Finding(sev[i], i)] :
      sev \in UNION { [1..n -> Range(SEVERITY_LEVELS)] : n \in 0..MaxFindings } }

MinSeverities == {NoSeverity, "HIGH"} \cup Range(SEVERITY_LEVELS)

InitFilter ==
  /\ NoParse
  /\ NoUnit
  /\ RegistryAsImported
  /\ config = DefaultConfig
  /\ source_code = <<>>
  /\ filename = ""
  /\ raw = <<>>
  /\ ast_tree = FALSE
  /\ outcomes = NoOutcome
  /\ files = <<>>
  /\ \E found \in FindingLists :
       result = [NewScanResult("util.py") EXCEPT !.vulnerabilities = found]
  /\ NoRuntime

FilterBySeverity ==
  /\ \E min_severity \in MinSeverities :
       /\ call' = [op |-> "filter_by_severity", min_severity |-> min_severity]
       /\ result' = filter_by_severity(result, min_severity)
       /\ ret' = filter_by_severity_return(result, min_severity)
  /\ UNCHANGED <<adjuster, parseVars, registryVars,
                 config, source_code, filename, raw, ast_tree, outcomes, files, runtimeVars>>

NextFilter == FilterBySeverity

SpecFilter == InitFilter /\ [][NextFilter]_vars

(***************************************************************************)
(* SpecRegistry: the registry, the engines built from it and their scans   *)
(***************************************************************************)
RegistryConfigs ==
  [min_severity       : {NoSeverity},
   dynamic_severity   : {FALSE},
   severity_overrides : {NoOverrides},
   enabled_rules      : {None, Some(<<>>), Some(<<"A", "C">>)},
   disabled_rules     : {None, Some(<<>>), Some(<<"B">>), Some(<<"A">>)}]

InitRegistry ==
  /\ NoParse
  /\ NoUnit
  /\ NoCall
  /\ config \in RegistryConfigs
  /\ RULE_REGISTRY = ImportedRegistry
  /\ rules = <<>>
  /\ NoRuntime

\* a register_rule call after the package import: a rule module imported
\* later, a rule file loaded at run time, a decorator in user code
RegisterRule ==
  /\ \E rule_class \in RuleClasses :
       RULE_REGISTRY' = register_rule(RULE_REGISTRY, rule_class)
  /\ UNCHANGED <<rules, parseVars, scanVars, unitVars, runtimeVars>>

\* RuleEngine.__init__
LoadRules ==
  /\ rules' = load_rules(config, RULE_REGISTRY)
  /\ UNCHANGED <<RULE_REGISTRY, parseVars, scanVars, unitVars, runtimeVars>>

\* scan_code with the engine's loaded rules
ScanLoaded ==
  /\ rules # <<>>
  /\ \E src \in FileSources : \E fn \in {"util.py"} :
       \E out \in LoadedOutcomes(rules, fn, Len(src)) :
         LET found == scan_ast_loaded(out, fn, src)
         IN  /\ source_code' = src
             /\ filename' = fn
             /\ result' = [NewScanResult(fn) EXCEPT
                             !.vulnerabilities = found.filtered,
                             !.files_scanned   = 1,
                             !.ignored_count   = found.ignored_count]
  /\ ast_tree' = TRUE
  /\ UNCHANGED <<config, raw, outcomes, files, parseVars, unitVars, registryVars, runtimeVars>>

NextRegistry == RegisterRule \/ LoadRules \/ ScanLoaded

SpecRegistry == InitRegistry /\ [][NextRegistry]_vars

(***************************************************************************)
(* SpecRepeat: scan_code calls on the same scanner configuration, within   *)
(* one interpreter process and across processes                            *)
(***************************************************************************)
RepeatConfigs == { DefaultConfig, [DefaultConfig EXCEPT !.min_severity = "high"] }

InitRepeat ==
  /\ NoParse
  /\ NoUnit
  /\ NoCall
  /\ RegistryAsImported
  /\ config \in RepeatConfigs
  /\ hash_seed \in HashSeeds
  /\ previous = NoPrevious
  /\ NoAdvanced
  /\ NoTimeouts

\* one scan_code call; the call before it is kept for comparison
ScanCodeText ==
  /\ \E src \in HashSources : \E fn \in {"util.py"} :
       /\ source_code' = src
       /\ filename' = fn
       /\ raw' = InsecureHashRule_check(src, fn, hash_seed)
       /\ result' = scan_code_hash(config, src, fn, hash_seed)
  /\ ast_tree' = TRUE
  /\ pc' = "returned"
  /\ previous' = IF pc = "returned"
                   THEN [none |-> FALSE, source_code |-> source_code,
                         filename |-> filename, result |-> result]
                   ELSE NoPrevious
  /\ UNCHANGED <<config, outcomes, files, hash_seed,
                 lines, line_number, active_disables, context,
                 unitVars, registryVars, advancedVars, timeoutVars>>

\* the program is run again: a new interpreter draws a new hash seed and
\* builds the scanner from the same configuration
NewProcess ==
  /\ pc = "returned"
  /\ \E seed \in HashSeeds \ {hash_seed} : hash_seed' = seed
  /\ UNCHANGED <<previous, parseVars, scanVars, unitVars, registryVars, advancedVars, timeoutVars>>

NextRepeat == ScanCodeText \/ NewProcess

SpecRepeat == InitRepeat /\ [][NextRepeat]_vars

(***************************************************************************)
(* SpecAdvanced: AdvancedSecurityScanner objects sharing the scan cache,   *)
(* their scan() calls and the worker threads of each call                  *)
(***************************************************************************)
ThresholdNames == {"LOW", "HIGH", "CRITICAL"}

InitAdvanced ==
  /\ NoParse
  /\ NoScan
  /\ NoUnit
  /\ RegistryAsImported
  /\ NoProcess
  /\ NoAdvanced
  /\ NoTimeouts

\* no scan() call is on the stack
Quiet == tasks.pc \in {"idle", "returned", "raised"}

\* AdvancedSecurityScanner(...): ScanCache() loads what earlier scanners saved
Construct ==
  /\ Quiet
  /\ \E min_severity \in ThresholdNames : \E use_cache \in BOOLEAN :
       \E use_multithreading \in BOOLEAN : \E show_progress \in BOOLEAN :
         scanner' = NewAdvancedScanner(min_severity, use_cache, use_multithreading,
                                       show_progress)
  /\ tasks' = NoTasks
  /\ UNCHANGED <<cache, parseVars, scanVars, unitVars, registryVars, processVars, timeoutVars>>

\* scan(), up to the choice between the pool and the loop
ScanBegin ==
  /\ Quiet
  /\ scanner.constructed
  /\ scanner.calls < MaxScanCalls
  /\ \E python_files \in ScanPaths :
       /\ scanner' = [scanner EXCEPT
                        !.calls = @ + 1,
                        !.result.total_files = Len(python_files),
                        !.progress = IF scanner.show_progress THEN ProgressBar ELSE @]
       /\ tasks' = [pc |-> IF scanner.use_multithreading /\ Len(python_files) > 1
                             THEN "pool" ELSE "loop",
                    python_files |-> python_files,
                    futures |-> [f \in Range(python_files) |-> Pending],
                    all_vulnerabilities |-> <<>>]
  /\ UNCHANGED <<cache, parseVars, scanVars, unitVars, registryVars, processVars, timeoutVars>>

\* a worker thread runs _scan_single_file on its file
WorkerRuns ==
  /\ tasks.pc = "pool"
  /\ \E f \in DOMAIN tasks.futures :
       /\ tasks.futures[f].state = "pending"
       /\ LET out == scan_single_file(scanner, cache, f)
          IN  /\ tasks' = [tasks EXCEPT !.futures[f] =
                             [state |-> "done", raised |-> out.raised,
                              skipped |-> out.skipped,
                              vulnerabilities |-> out.vulnerabilities]]
              /\ cache' = out.cache
              /\ scanner' = [scanner EXCEPT !.result.error_files = out.error_files]
  /\ UNCHANGED <<parseVars, scanVars, unitVars, registryVars, processVars, timeoutVars>>

\* the main thread takes the next completed future from as_completed
Collect ==
  /\ tasks.pc = "pool"
  /\ \E f \in DOMAIN tasks.futures :
       /\ tasks.futures[f].state = "done"
       /\ IF tasks.futures[f].raised
            THEN /\ tasks' = [tasks EXCEPT !.futures[f].state = "collected"]
                 /\ UNCHANGED scanner
            ELSE /\ tasks' = [tasks EXCEPT
                                !.futures[f].state = "collected",
                                !.all_vulnerabilities = @ \o tasks.futures[f].vulnerabilities]
                 /\ scanner' = [scanner EXCEPT !.result.scanned_files = @ + 1]
  /\ UNCHANGED <<cache, parseVars, scanVars, unitVars, registryVars, processVars, timeoutVars>>

\* the single-threaded loop: the next file, in the order of python_files
LoopScans ==
  /\ tasks.pc = "loop"
  /\ \E i \in DOMAIN tasks.python_files :
       /\ tasks.futures[tasks.python_files[i]].state = "pending"
       /\ \A j \in 1..(i - 1) : tasks.futures[tasks.python_files[j]].state = "collected"
       /\ LET f   == tasks.python_files[i]
              out == scan_single_file(scanner, cache, f)
          IN  /\ cache' = out.cache
              /\ IF out.raised
                   THEN /\ tasks' = [tasks EXCEPT
                                       !.pc = "raised",
                                       !.futures[f] =
                                          [state |-> "done", raised |-> TRUE,
                                           skipped |-> out.skipped,
                                           vulnerabilities |-> <<>>]]
                        /\ scanner' = [scanner EXCEPT !.result.error_files = out.error_files]
                   ELSE /\ tasks' = [tasks EXCEPT
                                       !.futures[f] =
                                          [state |-> "collected", raised |-> FALSE,
                                           skipped |-> out.skipped,
                                           vulnerabilities |-> out.vulnerabilities],
                                       !.all_vulnerabilities = @ \o out.vulnerabilities]
                        /\ scanner' = [scanner EXCEPT
                                         !.result.error_files = out.error_files,
                                         !.result.scanned_files = @ + 1]
  /\ UNCHANGED <<parseVars, scanVars, unitVars, registryVars, processVars, timeoutVars>>

\* scan(), after the pool or the loop: the result is filled in and returned
ScanReturns ==
  /\ tasks.pc \in {"pool", "loop"}
  /\ \A f \in DOMAIN tasks.futures : tasks.futures[f].state = "collected"
  /\ tasks' = [tasks EXCEPT !.pc = "returned"]
  /\ scanner' = [scanner EXCEPT !.result.vulnerabilities = tasks.all_vulnerabilities]
  /\ UNCHANGED <<cache, parseVars, scanVars, unitVars, registryVars, processVars, timeoutVars>>

NextAdvanced ==
  \/ Construct
  \/ ScanBegin
  \/ WorkerRuns
  \/ Collect
  \/ LoopScans
  \/ ScanReturns

SpecAdvanced == InitAdvanced /\ [][NextAdvanced]_vars

(***************************************************************************)
(* SpecTimeout: one Scanner, its scan_target and scan_files generators     *)
(* taken one at a time, and the wall clock                                 *)
(***************************************************************************)
Timeouts == {NoTimeout, 0, 1}

FileTimeouts == {NoTimeout, 1}

InitTimeout ==
  /\ NoParse
  /\ NoScan
  /\ NoUnit
  /\ RegistryAsImported
  /\ NoProcess
  /\ NoAdvanced
  /\ clock = 0
  /\ ast_scanner \in { NewScanner(use_cache, timeout, file_timeout) :
                         use_cache \in BOOLEAN, timeout \in Timeouts,
                         file_timeout \in FileTimeouts }
  /\ generator = NoGenerator

\* control is with the caller: no generator, or one suspended at a yield or
\* exhausted
AtCaller == generator.pc \in {"idle", "yielded", "done"}

\* the first lines of both generators
ResetScan(sc, now) ==
  [sc EXCEPT !.start_time = now, !.timeout_triggered = FALSE,
             !.scanned_files = 0, !.total_files = 0]

NewGenerator(method, single, file_paths) ==
  [frame |-> 1 - generator.frame, pc |-> "begun", method |-> method, single |-> single,
   file_paths |-> file_paths, i |-> 1, yielded |-> NoGenerator.yielded, parsed |-> <<>>]

\* scan_target(target), from the first next() to the head of the loop
BeginScanTarget ==
  /\ AtCaller
  /\ \E target \in ScanTargets :
       LET sc == ResetScan(ast_scanner, clock)
       IN  IF isfile(target)
             THEN IF scan_file(target)
                    THEN /\ ast_scanner' = [sc EXCEPT !.total_files = 1]
                         /\ generator' = NewGenerator("scan_target", TRUE, <<target>>)
                    ELSE /\ ast_scanner' = sc
                         /\ generator' = [NewGenerator("scan_target", TRUE, <<>>)
                                            EXCEPT !.pc = "done"]
           ELSE IF isdir(target)
             THEN /\ ast_scanner' = [sc EXCEPT !.total_files = Len(DirectoryFiles)]
                  /\ generator' = NewGenerator("scan_target", FALSE, DirectoryFiles)
           ELSE /\ ast_scanner' = sc
                /\ generator' = [NewGenerator("scan_target", FALSE, <<>>) EXCEPT
                                   !.pc = "yielded",
                                   !.yielded = Yielded(target, FALSE, PathMissingError)]
  /\ UNCHANGED <<clock, parseVars, scanVars, unitVars, registryVars, processVars, advancedVars>>

\* scan_files(file_paths), from the first next() to the head of the loop
BeginScanFiles ==
  /\ AtCaller
  /\ \E file_paths \in FileLists :
       /\ ast_scanner' = [ResetScan(ast_scanner, clock) EXCEPT !.total_files = Len(file_paths)]
       /\ generator' = NewGenerator("scan_files", FALSE, file_paths)
  /\ UNCHANGED <<clock, parseVars, scanVars, unitVars, registryVars, processVars, advancedVars>>

\* the timeout check before a file, and for scan_files the checks of the path
TimeoutCheck ==
  /\ generator.pc = "begun"
  /\ generator.i <= Len(generator.file_paths)
  /\ LET checked == check_global_timeout(ast_scanner, clock)
         f       == generator.file_paths[generator.i]
     IN  /\ ast_scanner' = checked.scanner
         /\ generator' =
              IF checked.timed_out
                THEN IF generator.single
                       THEN [generator EXCEPT
                               !.pc = "yielded",
                               !.i = @ + 1,
                               !.yielded = Yielded(f, FALSE, GlobalTimeoutError)]
                       ELSE [generator EXCEPT !.pc = "done"]
              ELSE IF generator.method = "scan_files" /\ ~isfile(f)
                THEN [generator EXCEPT
                        !.pc = "yielded",
                        !.i = @ + 1,
                        !.yielded = Yielded(f, FALSE, FileMissingError)]
              ELSE IF generator.method = "scan_files" /\ ~scan_file(f)
                THEN [generator EXCEPT !.i = @ + 1]
              ELSE [generator EXCEPT !.pc = "checked"]
  /\ UNCHANGED <<clock, parseVars, scanVars, unitVars, registryVars, processVars, advancedVars>>

\* _parse_file_with_cache on the file, the count and the yield
ParseNext ==
  /\ generator.pc = "checked"
  /\ \E cache_hit \in BOOLEAN : \E cut_off \in BOOLEAN :
       LET f   == generator.file_paths[generator.i]
           out == parse_file_with_cache(ast_scanner, clock, f, cache_hit, cut_off)
       IN  /\ ast_scanner' = [out.scanner EXCEPT
                                !.scanned_files = IF generator.single THEN 1 ELSE @ + 1]
           /\ generator' = [generator EXCEPT
                              !.pc = "yielded",
                              !.i = @ + 1,
                              !.yielded = out.yielded,
                              !.parsed = IF out.parsed THEN Append(@, f) ELSE @]
  /\ UNCHANGED <<clock, parseVars, scanVars, unitVars, registryVars, processVars, advancedVars>>

\* the caller asks for the next tuple
Resume ==
  /\ generator.pc = "yielded"
  /\ generator' = [generator EXCEPT !.pc = "begun"]
  /\ UNCHANGED <<clock, ast_scanner, parseVars, scanVars, unitVars, registryVars, processVars,
                 advancedVars>>

\* no file is left: the generator is exhausted
LoopEnds ==
  /\ generator.pc = "begun"
  /\ generator.i > Len(generator.file_paths)
  /\ generator' = [generator EXCEPT !.pc = "done"]
  /\ UNCHANGED <<clock, ast_scanner, parseVars, scanVars, unitVars, registryVars, processVars,
                 advancedVars>>

\* time.time() is the wall clock: it advances
Tick ==
  /\ clock < MaxClock
  /\ clock' = clock + 1
  /\ UNCHANGED <<ast_scanner, generator, parseVars, scanVars, unitVars, registryVars,
                 processVars, advancedVars>>

\* and it can be set back
ClockSetBack ==
  /\ clock > 0
  /\ clock' = clock - 1
  /\ UNCHANGED <<ast_scanner, generator, parseVars, scanVars, unitVars, registryVars,
                 processVars, advancedVars>>

NextTimeout ==
  \/ BeginScanTarget
  \/ BeginScanFiles
  \/ TimeoutCheck
  \/ ParseNext
  \/ Resume
  \/ LoopEnds
  \/ Tick
  \/ ClockSetBack

SpecTimeout == InitTimeout /\ [][NextTimeout]_vars

(***************************************************************************)
(* SpecRules: the check method of single rules on a tree                   *)
(***************************************************************************)
InitRules ==
  /\ NoParse
  /\ NoScan
  /\ NoUnit
  /\ RegistryAsImported
  /\ NoRuntime

CheckCommandInjection ==
  /\ call = NoOp
  /\ \E tree \in CallTrees :
       /\ call' = [op |-> "check", rule_id |-> "CMD001", tree |-> tree]
       /\ ret' = CommandInjectionRule_check(tree, "util.py")
  /\ UNCHANGED <<adjuster, parseVars, scanVars, registryVars, runtimeVars>>

CheckPathTraversal ==
  /\ call = NoOp
  /\ \E tree \in CallTrees :
       /\ call' = [op |-> "check", rule_id |-> "PTH001", tree |-> tree]
       /\ ret' = PathTraversalRule_check(tree, "util.py")
  /\ UNCHANGED <<adjuster, parseVars, scanVars, registryVars, runtimeVars>>

CheckHardcodedSecrets ==
  /\ call = NoOp
  /\ \E tree \in SecretTrees :
       /\ call' = [op |-> "check", rule_id |-> "SEC001", tree |-> tree]
       /\ ret' = HardcodedSecretsRule_check(tree, "util.py")
  /\ UNCHANGED <<adjuster, parseVars, scanVars, registryVars, runtimeVars>>

NextRules ==
  CheckCommandInjection \/ CheckPathTraversal \/ CheckHardcodedSecrets \/ Return

SpecRules == InitRules /\ [][NextRules]_vars

(***************************************************************************)
(* SpecCase: should_ignore on the context parsed from a text as written    *)
(***************************************************************************)
InitCase ==
  /\ NoParse
  /\ NoScan
  /\ NoUnit
  /\ RegistryAsImported
  /\ NoRuntime

\* should_ignore_line(source_code, line_number, rule_id), for the id of a
\* registered rule
ShouldIgnoreLine ==
  /\ call = NoOp
  /\ \E text \in RawTexts : \E line \in 1..(Len(text) + 1) :
       \E rule_id \in RegistryKeys(RULE_REGISTRY) :
         /\ call' = [op |-> "should_ignore_line", source_code |-> text,
                     line_number |-> line, rule_id |-> rule_id]
         /\ ret' = should_ignore(parse_source(text), line, rule_id)
  /\ UNCHANGED <<adjuster, parseVars, scanVars, registryVars, runtimeVars>>

NextCase == ShouldIgnoreLine \/ Return

SpecCase == InitCase /\ [][NextCase]_vars

(***************************************************************************)
(* Vocabulary of the properties                                            *)
(***************************************************************************)
Keys == RuleIds \cup {NoneKey}

QueryLines == 1..(MaxLines + 1)

Unscoped(line, kind) == line.kind = kind /\ ~line.group.present

\* the rule ids a directive's bracket names, after _parse_rule_ids
Listed(line) == Range(parse_rule_ids(line.group).ids)

Scoped(line, kind) == line.kind = kind /\ line.group.present /\ Listed(line) # {}

\* the text with line n replaced by a line that carries no directive
Erase(src, n) == [src EXCEPT ![n] = CodeLine]

Blocks == context.block_ignores

\* C1: an unscoped disable on line d and the first unscoped enable on line
\* e > d suppress every rule on every line d..e, both directive lines
\* included, and line e+1 is not suppressed when nothing else covers it.
C1_BlockInclusive ==
  pc = "parsed" =>
    \A d \in 1..Len(lines) : \A e \in 1..Len(lines) :
      ( /\ d < e
        /\ Unscoped(lines[d], "disable")
        /\ Unscoped(lines[e], "enable")
        /\ \A m \in (d + 1)..(e - 1) : ~Unscoped(lines[m], "enable") )
      => /\ \A l \in d..e : \A r \in RuleIds : should_ignore(context, l, r)
         /\ ( /\ \A m \in 1..Len(lines) : lines[m].kind # "ignore-file"
              /\ (e + 1 <= Len(lines) => lines[e + 1].kind # "ignore") )
            => \A r \in RuleIds : ~should_ignore(context, e + 1, r)

\* C2 (as claimed): when the loop body runs on a rule-scoped enable[X], an
\* unscoped disable block that is open at that line stays open.
C2_ScopedEnableKeepsUnscopedOpen ==
  [][ ( /\ Len(lines') = Len(lines) + 1
        /\ Scoped(lines'[Len(lines')], "enable")
        /\ DictHas(active_disables, NoneKey) )
      => DictHas(active_disables', NoneKey) ]_vars

\* C2 (amended): a rule-scoped enable[X] on line e closes the open block of
\* every listed rule and also the open unscoped block, each as the range
\* (start + 1, e - 1); the open blocks of the other rules stay open with
\* their start lines, and the ranges closed earlier are kept.
C2_ScopedEnableClosesUnscopedToo ==
  [][ ( /\ Len(lines') = Len(lines) + 1
        /\ Scoped(lines'[Len(lines')], "enable") )
      => LET closing == Listed(lines'[Len(lines')]) \cup {NoneKey}
             closed  == { k \in closing : DictHas(active_disables, k) }
             e       == line_number'
             old     == context.block_ignores
             new     == context'.block_ignores
         IN  /\ \A k \in Keys :
                   DictHas(active_disables', k)
                     <=> (DictHas(active_disables, k) /\ k \notin closing)
             /\ \A k \in Keys :
                   DictHas(active_disables', k)
                     => DictGet(active_disables', k) = DictGet(active_disables, k)
             /\ Len(new) = Len(old) + Cardinality(closed)
             /\ SubSeq(new, 1, Len(old)) = old
             /\ \A k \in closed :
                   \E i \in (Len(old) + 1)..Len(new) :
                     new[i] = Block(DictGet(active_disables, k) + 1, e - 1, BlockScope(k))
    ]_vars

\* an enable[X] has just closed an unscoped block while another rule's
\* block stays open
C2_Witness ==
  /\ pc = "loop"
  /\ line_number >= 1
  /\ Scoped(lines[line_number], "enable")
  /\ \E i \in DOMAIN Blocks :
       Blocks[i].rule_ids.none /\ Blocks[i].end = line_number - 1
  /\ \E k \in RuleIds : DictHas(active_disables, k)

\* the text with every disable directive above line e erased
EraseDisablesBefore(src, e) ==
  [n \in DOMAIN src |-> IF n < e /\ src[n].kind = "disable" THEN CodeLine ELSE src[n]]

\* C3: an unscoped enable closes every block open at that line, the
\* rule-scoped ones included: no range opened above it reaches it, and on
\* the lines after it the verdict is the one of the text without the
\* disable directives above it.
C3_UnscopedEnableClosesAll ==
  /\ ( pc = "loop" /\ line_number >= 1 /\ Unscoped(lines[line_number], "enable") )
       => active_disables = <<>>
  /\ \A e \in 1..Len(lines) :
       Unscoped(lines[e], "enable")
         => \A i \in DOMAIN Blocks : Blocks[i].start <= e => Blocks[i].end < e
  /\ pc = "parsed" =>
       \A e \in 1..Len(lines) :
         Unscoped(lines[e], "enable")
           => \A l \in (e + 1)..(MaxLines + 1) : \A r \in RuleIds :
                should_ignore(context, l, r)
                  = should_ignore(ParseSource(EraseDisablesBefore(lines, e)), l, r)

\* disable[A], a suppressed line, an unscoped enable, an unsuppressed line
C3_Witness ==
  /\ pc = "parsed"
  /\ \E d \in 1..Len(lines) : \E e \in 1..Len(lines) :
       /\ d + 1 < e
       /\ e < Len(lines)
       /\ Scoped(lines[d], "disable")
       /\ Unscoped(lines[e], "enable")
       /\ \E r \in Listed(lines[d]) :
            should_ignore(context, d + 1, r) /\ ~should_ignore(context, e + 1, r)

\* C4: a directive whose bracket yields no usable rule id is treated as
\* absent: every verdict is the one of the text without that directive.
C4_BlankListSuppressesNothing ==
  pc = "parsed" =>
    \A n \in 1..Len(lines) :
      ( lines[n].group.present /\ Listed(lines[n]) = {} )
        => \A l \in QueryLines : \A r \in RuleIds :
             should_ignore(context, l, r)
               = should_ignore(ParseSource(Erase(lines, n)), l, r)

\* the verdict as the sum of its four sources
Covered(ctx, l, r) ==
  \/ ctx.file_level_ignore_all
  \/ r \in ctx.file_level_ignore.ids
  \/ /\ l \in DOMAIN ctx.line_ignores
     /\ (ctx.line_ignores[l].none \/ r \in Range(ctx.line_ignores[l].ids))
  \/ \E i \in DOMAIN ctx.block_ignores :
       /\ ctx.block_ignores[i].start <= l
       /\ l <= ctx.block_ignores[i].end
       /\ ( ctx.block_ignores[i].rule_ids.none
            \/ r \in Range(ctx.block_ignores[i].rule_ids.ids) )

\* C5: should_ignore(line, rule_id) is true exactly when file-level-all is
\* set, or the rule is in the file-level set, or the line's own directive
\* names no rule or this rule, or the line lies in a block range whose
\* scope is all rules or includes the rule.
C5_ShouldIgnoreIff ==
  \A l \in QueryLines : \A r \in RuleIds :
    should_ignore(context, l, r) <=> Covered(context, l, r)

\* a line that only a rule-scoped block range suppresses, and only for
\* that rule
C5_Witness ==
  \E l \in QueryLines : \E r \in RuleIds : \E q \in RuleIds :
    /\ should_ignore(context, l, r)
    /\ ~should_ignore(context, l, q)
    /\ l \notin DOMAIN context.line_ignores
    /\ r \notin context.file_level_ignore.ids

\* C6: a disable (or disable[ID]) with no later enable that could close it
\* suppresses its scope on every line after it, through the last line.
C6_UnclosedDisableToEOF ==
  pc = "parsed" =>
    \A d \in 1..Len(lines) :
      /\ ( /\ Unscoped(lines[d], "disable")
           /\ \A m \in (d + 1)..Len(lines) : lines[m].kind # "enable" )
         => \A l \in (d + 1)..Len(lines) : \A r \in RuleIds :
              should_ignore(context, l, r)
      /\ \A r \in RuleIds :
           ( /\ Scoped(lines[d], "disable")
             /\ r \in Listed(lines[d])
             /\ \A m \in (d + 1)..Len(lines) :
                  lines[m].kind = "enable"
                    => (lines[m].group.present /\ r \notin Listed(lines[m])) )
           => \A l \in (d + 1)..Len(lines) : should_ignore(context, l, r)

\* C7: an inline ignore on line n suppresses line n for every rule when it
\* has no list and for the listed rules when it has one; for an unlisted
\* rule on line n, and for every rule on every other line, the verdict is
\* the one of the text without the directive.
C7_InlineIgnoreOnlyItsLine ==
  pc = "parsed" =>
    \A n \in 1..Len(lines) :
      lines[n].kind = "ignore" =>
        LET without == ParseSource(Erase(lines, n))
        IN  /\ ~lines[n].group.present
                 => \A r \in RuleIds : should_ignore(context, n, r)
            /\ Scoped(lines[n], "ignore")
                 => \A r \in RuleIds :
                      IF r \in Listed(lines[n])
                        THEN should_ignore(context, n, r)
                        ELSE should_ignore(context, n, r) = should_ignore(without, n, r)
            /\ \A l \in QueryLines \ {n} : \A r \in RuleIds :
                 should_ignore(context, l, r) = should_ignore(without, l, r)

\* ignore[a] on a line: rule A suppressed there, rule B not, and an
\* unlisted-all ignore elsewhere in the same text
C7_Witness ==
  /\ pc = "parsed"
  /\ \E n \in 1..Len(lines) :
       /\ Scoped(lines[n], "ignore")
       /\ should_ignore(context, n, "A")
       /\ ~should_ignore(context, n, "B")
  /\ \E n \in 1..Len(lines) :
       /\ Unscoped(lines[n], "ignore")
       /\ n + 1 <= Len(lines)
       /\ ~should_ignore(context, n + 1, "A")

\* C8: an ignore-file directive anywhere in the text suppresses every line:
\* every rule when it has no list, the listed rules when it has one, and
\* for an unlisted rule the verdict is the one of the text without it.
C8_IgnoreFileWholeFile ==
  pc = "parsed" =>
    \A n \in 1..Len(lines) :
      lines[n].kind = "ignore-file" =>
        LET without == ParseSource(Erase(lines, n))
        IN  /\ ~lines[n].group.present
                 => \A l \in QueryLines : \A r \in RuleIds : should_ignore(context, l, r)
            /\ Scoped(lines[n], "ignore-file")
                 => \A l \in QueryLines : \A r \in RuleIds :
                      IF r \in Listed(lines[n])
                        THEN should_ignore(context, l, r)
                        ELSE should_ignore(context, l, r) = should_ignore(without, l, r)

\* ignore-file[B] on the last line: rule B suppressed on line 1, rule A not
C8_Witness ==
  /\ pc = "parsed"
  /\ Len(lines) >= 2
  /\ Scoped(lines[Len(lines)], "ignore-file")
  /\ should_ignore(context, 1, "B")
  /\ ~should_ignore(context, 1, "A")

(***************************************************************************)
(* Properties of scan_code (SpecScan)                                      *)
(***************************************************************************)
Reported == result.vulnerabilities

\* the raw findings the text's directives suppress
Suppressed ==
  { i \in DOMAIN raw :
      should_ignore(ParseSource(source_code), raw[i].line_number, raw[i].rule_id) }

\* C9: ignored_count is the number of raw findings should_ignore is true
\* for; none of them is reported or counted as filtered, so the raw
\* findings are the reported, the ignored and the filtered ones.
C9_IgnoredCountExact ==
  pc = "returned" =>
    /\ result.ignored_count = Cardinality(Suppressed)
    /\ \A j \in DOMAIN Reported :
         \E i \in DOMAIN raw \ Suppressed : raw[i] = Reported[j]
    /\ \A j \in DOMAIN Reported :
         ~should_ignore(ParseSource(source_code),
                        Reported[j].line_number, Reported[j].rule_id)
    /\ Len(raw) = Len(Reported) + result.ignored_count + result.filtered_count

\* one scan with a reported, an ignored and a filtered finding
C9_Witness ==
  /\ pc = "returned"
  /\ Len(Reported) >= 1
  /\ result.ignored_count >= 1
  /\ result.filtered_count >= 1

\* C10: with dynamic severity enabled, the findings that survive
\* suppression are re-stamped with adjust_severity(base, context) and the
\* minimum-severity filter then runs on the adjusted levels.
C10_AdjustedBeforeMinSeverity ==
  ( pc = "returned" /\ config.dynamic_severity ) =>
    LET Survives(i) == i \notin Suppressed
        Restamp(v)  ==
          [v EXCEPT !.severity =
             adjust_severity(DefaultAdjuster, v.severity,
                             create_context_from_vulnerability(v))]
        Meets(v)    ==
          \/ config.min_severity = NoSeverity
          \/ get_severity_value(v.severity) <= get_severity_value(config.min_severity)
        F[i \in 0..Len(raw)] ==
          IF i = 0 THEN <<>>
          ELSE IF Survives(i) /\ Meets(Restamp(raw[i]))
                 THEN Append(F[i - 1], Restamp(raw[i]))
                 ELSE F[i - 1]
    IN  Reported = F[Len(raw)]

\* C11: when severity_overrides maps a rule id to a valid level, every
\* finding of that rule scan_code reports carries the override level, and
\* the minimum-severity filter keeps or drops it by the override level.
C11_OverrideAppliedBeforeFilter ==
  ( pc = "returned" /\ ast_tree ) =>
    LET Effective(v) ==
          [v EXCEPT !.severity = get_effective_severity(config, v.rule_id, v.severity)]
        Meets(v) ==
          \/ config.min_severity = NoSeverity
          \/ get_severity_value(v.severity) <= get_severity_value(config.min_severity)
        F[i \in 0..Len(raw)] ==
          IF i = 0 THEN <<>>
          ELSE IF i \notin Suppressed /\ Meets(Effective(raw[i]))
                 THEN Append(F[i - 1], Effective(raw[i]))
                 ELSE F[i - 1]
    IN  Reported = F[Len(raw)]

\* most severe first; equal severities by ascending line
InOrder(v, w) ==
  \/ get_severity_value(v.severity) < get_severity_value(w.severity)
  \/ /\ get_severity_value(v.severity) = get_severity_value(w.severity)
     /\ v.line_number <= w.line_number

\* C12: the findings of every returned ScanResult, of scan_code and of
\* scan, are ordered by severity, most severe first, and within one
\* severity by ascending line.
C12_SortedBySeverityThenLine ==
  pc \in {"returned", "scanned"} =>
    \A i \in DOMAIN Reported : \A j \in DOMAIN Reported :
      i < j => InOrder(Reported[i], Reported[j])

\* the outcome of the rules had rule r not been loaded
Absent(out, r) == [out EXCEPT ![r] = [raised |-> FALSE, results |-> <<>>]]

\* the finding passes the configured minimum severity
MeetsMin(v) ==
  \/ config.min_severity = NoSeverity
  \/ get_severity_value(v.severity) <= get_severity_value(config.min_severity)

\* every finding the rules that did not raise returned on this file is
\* reported, unless the text suppresses it or the minimum severity drops it
OthersReported(out, src) ==
  \A q \in RuleIds :
    ~out[q].raised =>
      \A k \in DOMAIN out[q].results :
        LET v == out[q].results[k]
        IN  ( ~should_ignore(ParseSource(src), v.line_number, v.rule_id) /\ MeetsMin(v) )
              => \E j \in DOMAIN Reported : Reported[j] = v

\* C13: a rule whose check() raises does not abort the scan: the other
\* rules' findings on that file are reported, the ScanResult is the one
\* of the same scan without the failing rule, and in a scan of several
\* files the other files' findings are reported as well.
C13_RaisingRuleIsolated ==
  /\ ( pc = "returned" /\ ast_tree ) =>
       \A r \in RuleIds :
         outcomes[r].raised =>
           /\ OthersReported(outcomes, source_code)
           /\ result = scan_code(config, source_code, filename, Absent(outcomes, r))
  /\ pc = "scanned" =>
       \A n \in DOMAIN files : \A r \in RuleIds :
         ( files[n].ast_tree /\ files[n].outcome[r].raised ) =>
           /\ \A m \in DOMAIN files :
                files[m].ast_tree => OthersReported(files[m].outcome, files[m].source_code)
           /\ result = scan(config, TargetDir,
                             [files EXCEPT ![n].outcome = Absent(@, r)])

\* in a scan of two files a rule raised on the first file, the other
\* rule's finding on that file is reported and so is a finding of the
\* second file
C13_Witness ==
  /\ pc = "scanned"
  /\ Len(files) >= 2
  /\ files[1].ast_tree
  /\ files[1].outcome["A"].raised
  /\ \E j \in DOMAIN Reported :
       Reported[j].rule_id = "B" /\ Reported[j].file_path = files[1].file_path
  /\ \E j \in DOMAIN Reported : Reported[j].file_path = files[2].file_path

\* C14: when no syntax tree can be produced for an input, the returned
\* ScanResult has no finding for that input and has an error entry for
\* it, in scan_code and in scan alike.
C14_NoTreeRecordsError ==
  /\ ( pc = "returned" /\ ~ast_tree ) =>
       /\ Reported = <<>>
       /\ result.errors # <<>>
  /\ pc = "scanned" =>
       \A n \in DOMAIN files :
         ~files[n].ast_tree =>
           /\ \A j \in DOMAIN Reported : Reported[j].file_path # files[n].file_path
           /\ \E k \in DOMAIN result.errors :
                result.errors[k] = ErrorEntry(files[n].file_path, files[n].error)

(***************************************************************************)
(* Properties of the SeverityAdjuster (SpecAdjust)                         *)
(***************************************************************************)
\* the four signals of a context
TestContext(ctx) ==
  MatchesLowSensitivityPath(ctx.file_path) \/ StartsWithTest(ctx.function_name)

SensitivePath(ctx) == MatchesSensitivePath(ctx.file_path)

SensitiveName(ctx) ==
  MatchesSensitiveFunction(ctx.function_name) \/ MatchesSensitiveFunction(ctx.class_name)

UserInput(ctx) == MatchesUserInput(ctx.code_snippet)

One(b) == IF b THEN 1 ELSE 0

Clamp(i) == IF i < 0 THEN 0 ELSE IF i > 3 THEN 3 ELSE i

LevelAt(i) == SEVERITY_ORDER[i + 1]

BaseIndex(severity) == IndexOf(SEVERITY_ORDER, severity) - 1

\* every signal counts
SignalSum(ctx) ==
  One(SensitivePath(ctx)) + One(SensitiveName(ctx)) + One(UserInput(ctx))
    - One(TestContext(ctx))

\* a signal counts when the adjuster's switch for it is on
SwitchedSum(adj, ctx) ==
  One(adj.upgrade_for_sensitive /\ SensitivePath(ctx))
    + One(adj.upgrade_for_sensitive /\ SensitiveName(ctx))
    + One(adj.consider_user_input /\ UserInput(ctx))
    - One(adj.downgrade_for_tests /\ TestContext(ctx))

\* C15 (as claimed): with the adjuster enabled and a base severity among
\* the four levels, adjust_severity returns the level at index
\* clamp(base_index - sum, 0, 3), where sum is -1 for a test context, +1
\* for a sensitive path, +1 for a sensitive function or class name and +1
\* for user input, each counted once.
C15_ClampedSumOfSignals ==
  ( /\ call.op = "adjust_severity"
    /\ adjuster.enabled
    /\ call.base_severity \in Range(SEVERITY_ORDER) )
  => ret = LevelAt(Clamp(BaseIndex(call.base_severity) - SignalSum(call.context)))

\* C15 (amended): with the adjuster enabled and a base severity among the
\* four levels, adjust_severity returns the level at index
\* clamp(base_index - sum, 0, 3), where sum has -1 for a test context when
\* downgrade_for_tests is on, +1 for a sensitive path and +1 for a
\* sensitive function or class name when upgrade_for_sensitive is on, and
\* +1 for user input when consider_user_input is on, each counted once;
\* the result is one of the four levels.
C15_ClampedSumOfSwitchedSignals ==
  ( /\ call.op = "adjust_severity"
    /\ adjuster.enabled
    /\ call.base_severity \in Range(SEVERITY_ORDER) )
  => /\ ret = LevelAt(Clamp(BaseIndex(call.base_severity)
                              - SwitchedSum(adjuster, call.context)))
     /\ ret \in Range(SEVERITY_ORDER)

\* low became critical on three +1 signals, the function name and the
\* class name both matching
C15_Witness ==
  /\ call.op = "adjust_severity"
  /\ adjuster = DefaultAdjuster
  /\ call.base_severity = "low"
  /\ SensitivePath(call.context)
  /\ MatchesSensitiveFunction(call.context.function_name)
  /\ MatchesSensitiveFunction(call.context.class_name)
  /\ UserInput(call.context)
  /\ ~TestContext(call.context)
  /\ ret = "critical"

\* C16: for every base severity, context and adjuster setting, the
\* severity adjust_severity returns is one of critical, high, medium, low.
C16_AdjustedIsOneOfFourLevels ==
  call.op = "adjust_severity" => ret \in Range(SEVERITY_ORDER)

\* the reasons of the signals that contribute to the adjustment
Contributing(adj, ctx) ==
  { r \in {ReasonTestCode, ReasonSensitivePath, ReasonSensitiveFunction, ReasonUserInput} :
      /\ adj.enabled
      /\ \/ r = ReasonTestCode /\ adj.downgrade_for_tests /\ TestContext(ctx)
         \/ r = ReasonSensitivePath /\ adj.upgrade_for_sensitive /\ SensitivePath(ctx)
         \/ r = ReasonSensitiveFunction /\ adj.upgrade_for_sensitive /\ SensitiveName(ctx)
         \/ r = ReasonUserInput /\ adj.consider_user_input /\ UserInput(ctx) }

\* C17: get_adjustment_reasons(context) lists one reason for each signal
\* that contributes to adjust_severity for the same context under the
\* same adjuster settings, and no reason for a signal that does not.
C17_ReasonsAreTheFiredSignals ==
  call.op = "get_adjustment_reasons" =>
    /\ Range(ret) = Contributing(adjuster, call.context)
    /\ Len(ret) = Cardinality(Contributing(adjuster, call.context))

(***************************************************************************)
(* Properties of ScanResult.filter_by_severity (SpecFilter)                *)
(***************************************************************************)
\* critical = 0 .. low = 3, whatever the letter case
Rank(level) ==
  CASE lower(level) = "critical" -> 0
    [] lower(level) = "high"     -> 1
    [] lower(level) = "medium"   -> 2
    [] lower(level) = "low"      -> 3

C19_RegistryAppendOnly ==
  [][ \A i \in DOMAIN RULE_REGISTRY :
        /\ i \in DOMAIN RULE_REGISTRY'
        /\ RULE_REGISTRY'[i] = RULE_REGISTRY[i] ]_vars

\* C20: every finding of a ScanResult has line >= 1 and a rule_id that is
\* a key of the rule registry.
C20_FindingsLineAndRegisteredId ==
  \A j \in DOMAIN Reported :
    /\ Reported[j].line_number >= 1
    /\ Reported[j].rule_id \in RegistryKeys(RULE_REGISTRY)

\* a finding of a rule the engine loaded before a later registration
\* changed the registry
C20_Witness ==
  /\ Len(Reported) >= 1
  /\ load_rules(config, RULE_REGISTRY) # rules
  /\ \E j \in DOMAIN Reported : \E i \in DOMAIN rules :
       /\ Reported[j].rule_id = rules[i].rule_id
       /\ \E k \in DOMAIN RULE_REGISTRY :
            /\ RULE_REGISTRY[k].rule_id = rules[i].rule_id
            /\ RULE_REGISTRY[k].rule_class # rules[i]

\* the rule ids a list of the configuration names; unset names none
ListedIn(list) == IF list.none THEN {} ELSE Range(list.ids)

\* the configuration excludes the rule
Excluded(cfg, r) ==
  \/ r \in ListedIn(cfg.disabled_rules)
  \/ /\ ListedIn(cfg.enabled_rules) # {}
     /\ r \notin ListedIn(cfg.enabled_rules)

LoadedIds(loaded) == { loaded[i].rule_id : i \in DOMAIN loaded }

C21_RepeatedScanIdentical ==
  ( /\ pc = "returned"
    /\ ~previous.none
    /\ previous.source_code = source_code
    /\ previous.filename = filename )
  => /\ result.vulnerabilities = previous.result.vulnerabilities
     /\ result.ignored_count = previous.result.ignored_count
     /\ result.filtered_count = previous.result.filtered_count

(***************************************************************************)
(* Properties of single rules (SpecRules)                                  *)
(***************************************************************************)
\* a call of a command or file sink whose arguments are all literal
\* constants
LiteralSinkCall(node) ==
  /\ node.func \in DOMAIN DANGEROUS_FUNCTIONS \cup SUBPROCESS_FUNCTIONS
                     \cup FILE_FUNCTIONS \cup FILE_METHODS \cup {"os.path.join"}
  /\ node.args # <<>>
  /\ \A i \in DOMAIN node.args : node.args[i].class = "Constant"

\* C22: a literal constant is never classified as externally influenced,
\* and CMD001 and PTH001 report no finding for a sink call whose arguments
\* are literal constants.
C22_LiteralArgumentNotReported ==
  /\ ~is_user_controlled(Arg("Constant"))
  /\ ( call.op = "check" /\ call.rule_id \in {"CMD001", "PTH001"} ) =>
       \A n \in DOMAIN call.tree :
         LiteralSinkCall(call.tree[n])
           => \A j \in DOMAIN ret : ret[j].line_number # n

\* the value filter of the claim, in its own words
EmptyOrPlaceholder(value) ==
  \/ value = <<>>
  \/ strip_chars(lower_chars(value)) \in PLACEHOLDER_VALUES
  \/ (value[1] = "{" /\ value[Len(value)] = "}")
  \/ (value[1] = "<" /\ value[Len(value)] = ">")

TooShort(value) == Len(value) < MIN_SECRET_LENGTH

EnvironmentReference(value) == value # <<>> /\ value[1] = "$"

FilteredOut(value) ==
  EmptyOrPlaceholder(value) \/ TooShort(value) \/ EnvironmentReference(value)

\* the findings reported on line n
OnLine(found, n) == SelectSeq(found, LAMBDA v : v.line_number = n)

\* the credential-like names among the Name targets of an assignment
CredentialTargets(stmt) ==
  { i \in DOMAIN stmt.targets :
      stmt.targets[i].class = "Name" /\ is_sensitive_name(stmt.targets[i].id) }

\* C23: for an assignment of a string literal to a credential-like name,
\* SEC001 reports nothing when the value is empty or a placeholder,
\* shorter than the minimum length or an environment-variable reference,
\* and otherwise reports, per credential-like target, a finding with
\* severity high, a non-empty message and the assignment's line.
C23_HardcodedCredentialReported ==
  ( call.op = "check" /\ call.rule_id = "SEC001" ) =>
    \A n \in DOMAIN call.tree :
      LET stmt == call.tree[n]
      IN  ( /\ stmt.class \in {"Assign", "AnnAssign"}
            /\ stmt.value.class = "Constant"
            /\ stmt.value.str
            /\ CredentialTargets(stmt) # {} )
          => IF FilteredOut(stmt.value.value)
               THEN OnLine(ret, n) = <<>>
               ELSE /\ Len(OnLine(ret, n)) = Cardinality(CredentialTargets(stmt))
                    /\ \A j \in DOMAIN OnLine(ret, n) :
                         /\ OnLine(ret, n)[j].rule_id = "SEC001"
                         /\ OnLine(ret, n)[j].severity = "high"
                         /\ OnLine(ret, n)[j].description # <<>>
                         /\ OnLine(ret, n)[j].description # ""

\* line 1 holds a filtered assignment, line 2 a reported one
C23_Witness ==
  /\ call.op = "check"
  /\ call.rule_id = "SEC001"
  /\ Len(call.tree) = 2
  /\ call.tree[1].class = "Assign"
  /\ call.tree[1].value.class = "Constant"
  /\ call.tree[1].value.str
  /\ CredentialTargets(call.tree[1]) # {}
  /\ EnvironmentReference(call.tree[1].value.value)
  /\ call.tree[2] = Assign(<<NameNode(Password)>>, StrConstant(Secret123))
  /\ Len(ret) = 1
  /\ ret[1].line_number = 2
  /\ ret[1].severity = "high"

(***************************************************************************)
(* Properties of the directive patterns (SpecCase)                         *)
(***************************************************************************)
\* the line written in lower case, its rule ids in upper case
Canonical(line) ==
  RawLine(lower_chars(line.marker), lower_chars(line.keyword),
          IF line.group.present
            THEN Group([i \in DOMAIN line.group.items |-> upper(line.group.items[i])])
            ELSE NoGroup)

\* the line shows the directive keyword in some letter case
Shows(line, keyword) ==
  lower_chars(line.marker) = PysecMarker /\ lower_chars(line.keyword) = keyword

\* the line's bracket names the rule in some letter case
Names(line, rule_id) ==
  /\ line.group.present
  /\ \E i \in DOMAIN line.group.items : upper(strip(line.group.items[i])) = rule_id

\* C24: directives are case-insensitive, the listed rule ids included: the
\* verdict for a text is the verdict for the same text written in lower
\* case with upper-case rule ids, and an ignore or ignore-file directive in
\* any letter case naming a rule in any letter case suppresses that rule.
C24_DirectivesCaseInsensitive ==
  call.op = "should_ignore_line" =>
    LET text == call.source_code
    IN  /\ ret = should_ignore(parse_source([n \in DOMAIN text |-> Canonical(text[n])]),
                               call.line_number, call.rule_id)
        /\ \A n \in DOMAIN text :
             ( /\ Names(text[n], call.rule_id)
               /\ \/ Shows(text[n], IgnoreFileKeyword)
                  \/ (Shows(text[n], IgnoreKeyword) /\ n = call.line_number) )
             => ret = TRUE

\* PYSEC: IGNORE[...] and pysec: ignore-file[a] suppress, with no block
\* directive in the text
C24_Witness ==
  /\ call.op = "should_ignore_line"
  /\ ret = TRUE
  /\ \A n \in DOMAIN call.source_code :
       ~Shows(call.source_code[n], DisableKeyword)
  /\ \E n \in DOMAIN call.source_code :
       /\ Names(call.source_code[n], call.rule_id)
       /\ call.source_code[n].keyword # lower_chars(call.source_code[n].keyword)
       /\ \E i \in DOMAIN call.source_code[n].group.items :
            call.source_code[n].group.items[i] # upper(call.source_code[n].group.items[i])

\* the (line, rule) pairs a block range suppresses
Suppresses(b, l, r) ==
  /\ b.start <= l
  /\ l <= b.end
  /\ (b.rule_ids.none \/ r \in Range(b.rule_ids.ids))

\* C25: once a block range has been closed, no later directive changes or
\* removes it: every step of the parse, the end of the file included, keeps
\* the ranges recorded so far as they are, in their places, and every
\* (line, rule) pair such a range suppresses stays suppressed.
C25_ClosedRangeKept ==
  [][ LET old == context.block_ignores
          new == context'.block_ignores
      IN  /\ Len(old) <= Len(new)
          /\ SubSeq(new, 1, Len(old)) = old
          /\ \A i \in DOMAIN old : \A l \in QueryLines : \A r \in RuleIds :
                Suppresses(old[i], l, r) => should_ignore(context', l, r)
    ]_vars

\* a range that suppresses a line has been closed by an enable, a later
\* disable of the same scope has opened a second range, and both are in the
\* final index
C25_Witness ==
  /\ pc = "parsed"
  /\ Len(Blocks) >= 2
  /\ \E e \in 1..Len(lines) : \E d \in 1..Len(lines) :
       /\ e < d
       /\ lines[e].kind = "enable"
       /\ lines[d].kind = "disable"
       /\ Blocks[1].end = e - 1
       /\ Blocks[1].start <= Blocks[1].end
       /\ Blocks[2].rule_ids = Blocks[1].rule_ids
       /\ Blocks[2].start = d + 1

\* a disable directive that opens, or repeats, the block of scope k
OpensScope(line, k) ==
  /\ line.kind = "disable"
  /\ IF k = NoneKey THEN parse_rule_ids(line.group).none ELSE k \in Listed(line)

\* an enable directive that closes the block of scope k
ClosesScope(line, k) ==
  /\ line.kind = "enable"
  /\ (parse_rule_ids(line.group).none \/ k = NoneKey \/ k \in Listed(line))

\* the rules a block of scope k suppresses
ScopeRules(k) == IF k = NoneKey THEN RuleIds ELSE {k}

\* IgnoreHandler: after a repeated disable of scope k, the lines from the
\* first disable up to the directive that closes the scope are suppressed
HandlerKeepsStart ==
  \A k \in Keys : \A d1 \in 1..Len(lines) : \A d2 \in 1..Len(lines) :
    ( /\ d1 < d2
      /\ OpensScope(lines[d1], k)
      /\ OpensScope(lines[d2], k)
      /\ \A m \in (d1 + 1)..(d2 - 1) : ~ClosesScope(lines[m], k) )
    => \A l \in (d1 + 1)..Len(lines) :
         (\A m \in (d1 + 1)..l : ~ClosesScope(lines[m], k))
           => \A r \in ScopeRules(k) : should_ignore(context, l, r)

\* IgnoreCommentParser: the same, for its single scope of all rules
CommentParserKeepsStart ==
  \A d1 \in 1..Len(lines) : \A d2 \in 1..Len(lines) :
    ( /\ d1 < d2
      /\ DISABLE_PATTERN(lines[d1])
      /\ DISABLE_PATTERN(lines[d2])
      /\ \A m \in (d1 + 1)..(d2 - 1) : ~ENABLE_PATTERN(lines[m]) )
    => \A l \in (d1 + 1)..Len(lines) :
         (\A m \in (d1 + 1)..l : ~ENABLE_PATTERN(lines[m]))
           => \A r \in RuleIds : IgnoreCommentParser_should_ignore(lines, l, r)

\* C26: in both parsers a repeated disable for a scope whose block is open
\* does not move the block's start: every line between the first disable
\* and the closing enable, or the end of the file, is suppressed for that
\* scope.
C26_RepeatedDisableKeepsStart ==
  pc = "parsed" => (CommentParserKeepsStart /\ HandlerKeepsStart)

(***************************************************************************)
(* Properties of AdvancedSecurityScanner (SpecAdvanced)                    *)
(***************************************************************************)
\* the findings a scan of the file from its text gives under a threshold
FreshScan(f, min_severity) ==
  filter_min_severity(detect(f, FileContent[f]), min_severity)

\* the findings of one file in a list, in the list's order
OfFile(found, f) ==
  LET InFile(v) == v.file_path = f
  IN  SelectSeq(found, InFile)

\* C28: the findings _scan_single_file returns for an unchanged file from
\* the scan cache are those a fresh scan of the file gives under the
\* scanner's current min_severity, whatever threshold filled the cache.
C28_CachedEqualsFresh ==
  tasks.pc # "idle" =>
    \A f \in DOMAIN tasks.futures :
      ( /\ tasks.futures[f].state # "pending"
        /\ ~tasks.futures[f].raised
        /\ tasks.futures[f].skipped )
      => tasks.futures[f].vulnerabilities = FreshScan(f, scanner.min_severity)

\* C29: when scan() returns, every discovered file has been processed
\* exactly once: scanned_files equals total_files and the findings of each
\* file are in the result exactly once, whatever the order in which the
\* workers ran, with the progress bar on or off, on every scan() call.
C29_EveryFileOnce ==
  tasks.pc = "returned" =>
    /\ scanner.result.scanned_files = scanner.result.total_files
    /\ scanner.result.total_files = Len(tasks.python_files)
    /\ \A f \in AdvFiles :
         OfFile(scanner.result.vulnerabilities, f)
           = IF f \in Range(tasks.python_files)
               THEN FreshScan(f, scanner.min_severity) ELSE <<>>

(***************************************************************************)
(* Properties of the global timeout (SpecTimeout)                          *)
(***************************************************************************)
\* C30: once the global timeout has been detected it stays latched for the
\* rest of the scan: no later file is parsed and no later tuple carries a
\* tree; scanned_files never exceeds total_files; and the start of the next
\* scan resets the latch and both counters.
C30_TimeoutLatched ==
  [][ /\ ast_scanner'.scanned_files <= ast_scanner'.total_files
      /\ IF generator'.frame # generator.frame
           THEN /\ ~ast_scanner'.timeout_triggered
                /\ ast_scanner'.scanned_files = 0
                /\ ast_scanner'.total_files = Len(generator'.file_paths)
           ELSE ast_scanner.timeout_triggered
                  => /\ ast_scanner'.timeout_triggered
                     /\ generator'.parsed = generator.parsed
                     /\ ast_scanner'.ast_cache = ast_scanner.ast_cache
                     /\ (generator'.pc = "yielded" /\ generator.pc # "yielded")
                          => ~generator'.yielded.tree
    ]_vars

\* the timeout was detected inside _parse_file_with_cache with a file left,
\* a tree of that file is in the cache, and the wall clock has been set
\* back below the limit: only the latch keeps the next file from being parsed
C30_Witness ==
  /\ ast_scanner.timeout_triggered
  /\ generator.pc = "begun"
  /\ generator.yielded.error = GlobalTimeoutError
  /\ generator.i <= Len(generator.file_paths)
  /\ generator.file_paths[generator.i] \in ast_scanner.ast_cache
  /\ clock - ast_scanner.start_time <= ast_scanner.timeout

====
